---- MODULE Spec2Model ----
(***************************************************************************)
(* A model of x-digest: the digest splitter (digest.py), the delivery      *)
(* retry loop (delivery/base.py), the classification engine (classify.py)  *)
(* and the idempotency bookkeeping of the pipeline (cli.py, status.py).    *)
(*                                                                         *)
(* Strings are sequences of one-character strings.  Every component has    *)
(* its own variables and its own specification; a specification leaves     *)
(* the variables of the other components untouched.                        *)
(***************************************************************************)
EXTENDS Integers, Sequences, FiniteSets, TLC

VARIABLES
    \* split_digest (digest.py)
    digest,        \* the text given to split_digest
    max_length,    \* the limit given to split_digest
    sections,      \* the configured sections: a sequence of emoji (one character each)
    remaining,     \* local: the text not yet cut
    parts,         \* local: the parts cut so far, without indicator
    split_at,      \* local: where the last iteration cut; -1 stands for None
    result,        \* the returned list
    split_pc,      \* "call" | "loop" | "returned"
    \* send_digest (delivery/base.py)
    n_parts,       \* len(parts) of the digest being sent; the parts are 0..n_parts-1
    max_retries,   \* the max_retries argument
    part_i,        \* local i: the part being sent
    attempt,       \* local attempt: the attempt being made for part_i
    failed_parts,  \* local failed_parts
    sends,         \* the provider's log: every provider.send call and how it ended
    sleeps,        \* every time.sleep call: the part it followed and its seconds
    send_result,   \* the returned value
    send_pc,       \* "idle" | "sending" | "returned"
    \* the classification engine (classify.py)
    tweets,        \* the batch given to the function
    cl_op,         \* the function applied: "none" until one is
    cl_arg,        \* classify_tweet: the position in the batch of the post classified
    cl_out,        \* what the function returned
    \* run_pipeline (cli.py) and the status file (status.py), for one list
    now,           \* the clock, in minutes
    window,        \* config["idempotency_window_minutes"]
    status,        \* the list's entry of data/status.json
    runs,          \* per invocation of run_pipeline: its arguments, locals and effects
    \* parse_tweets (models.py)
    json_data,     \* the JSON array given to parse_tweets
    parse_out,     \* what parse_tweets returned, or the exception that escaped
    parse_pc,      \* "idle" | "call" | "returned"
    \* _deliver_digest (cli.py)
    dl_digest,     \* the digest_text argument
    dl_provider,   \* config["delivery"]["provider"]
    dl_parts,      \* local parts: what split_digest returned
    dl_pc,         \* "idle" | "call" | "sending"
    \* concurrent load_status and update_status calls (status.py)
    file,          \* data/status.json on disk: missing, empty, or a JSON document
    calls,         \* per caller: the call it makes, its position and its locals
    \* presummary_tweets (presummary.py)
    ps_tweets,     \* the tweets argument
    ps_config,     \* config["pre_summarization"]
    ps_threads,    \* local threads, in dict order
    ps_unit,       \* how many entries of threads the loop has handled
    ps_results,    \* local results: (tweet, summary) pairs
    ps_calls,      \* the provider's log: every generate call and how it ended
    ps_pc,         \* "idle" | "call" | "loop" | "returned" | "raised"
    \* generate_digest (digest.py)
    gd_tweets,     \* the tweets argument: the ids of the posts
    gd_images,     \* len(images): how many (tweet_id, image_url) pairs were selected
    gd_provider,   \* the class of llm_provider: "gemini" | "mock"
    gd_image_data, \* local image_data
    gd_fetched,    \* how many entries of images the loop has handled
    gd_calls,      \* the provider's log: every generate call and how it ended
    gd_out,        \* what generate_digest returned, or the exception that escaped
    gd_pc,         \* "idle" | "call" | "images" | "returned" | "raised"
    \* should_presummary (presummary.py)
    sp_content,    \* the content argument: one post, or a list of posts
    sp_config,     \* config["pre_summarization"]
    sp_out,        \* the returned value
    sp_pc,         \* "idle" | "call" | "returned"
    \* prioritize_images (images.py)
    im_tweets,     \* the tweets argument
    im_max_total,  \* the max_total argument
    im_max_per_tweet,\* the max_per_tweet argument
    im_out,        \* the returned list of (tweet_id, url) pairs
    im_pc,         \* "idle" | "call" | "returned"
    \* GeminiProvider.generate (llm/gemini.py)
    gm_images,     \* the images argument: what kind of values the list holds
    gm_reply,      \* what requests.post does: a response, or an exception
    gm_out,        \* what generate returned or raised
    gm_pc          \* "call", "returned", or "idle"

splitVars == <<digest, max_length, sections, remaining, parts, split_at, result,
               split_pc>>

sendVars == <<n_parts, max_retries, part_i, attempt, failed_parts, sends, sleeps,
              send_result, send_pc>>

classVars == <<tweets, cl_op, cl_arg, cl_out>>

pipeVars == <<now, window, status, runs>>

parseVars == <<json_data, parse_out, parse_pc>>

deliverVars == <<dl_digest, dl_provider, dl_parts, dl_pc>>

statusVars == <<file, calls>>

presummaryVars == <<ps_tweets, ps_config, ps_threads, ps_unit, ps_results,
                    ps_calls, ps_pc>>

digestVars == <<gd_tweets, gd_images, gd_provider, gd_image_data, gd_fetched,
                gd_calls, gd_out, gd_pc>>

shouldVars == <<sp_content, sp_config, sp_out, sp_pc>>

imagesVars == <<im_tweets, im_max_total, im_max_per_tweet, im_out, im_pc>>

geminiVars == <<gm_images, gm_reply, gm_out, gm_pc>>

vars == <<splitVars, sendVars, classVars, pipeVars, parseVars, deliverVars,
          statusVars, presummaryVars, digestVars, shouldVars, imagesVars, geminiVars>>

\* What each component leaves alone.
notSplit == <<sendVars, classVars, pipeVars, parseVars, deliverVars,
    statusVars, presummaryVars, digestVars, shouldVars, imagesVars, geminiVars>>
notSend == <<splitVars, classVars, pipeVars, parseVars, deliverVars,
    statusVars, presummaryVars, digestVars, shouldVars, imagesVars, geminiVars>>
notClass == <<splitVars, sendVars, pipeVars, parseVars, deliverVars,
    statusVars, presummaryVars, digestVars, shouldVars, imagesVars, geminiVars>>
notPipe == <<splitVars, sendVars, classVars, parseVars, deliverVars,
    statusVars, presummaryVars, digestVars, shouldVars, imagesVars, geminiVars>>
notParse == <<splitVars, sendVars, classVars, pipeVars, deliverVars,
    statusVars, presummaryVars, digestVars, shouldVars, imagesVars, geminiVars>>
notDeliver == <<splitVars, classVars, pipeVars, parseVars, statusVars,
    presummaryVars, digestVars, shouldVars, imagesVars, geminiVars>>
notStatus == <<splitVars, sendVars, classVars, pipeVars, parseVars, deliverVars,
    presummaryVars, digestVars, shouldVars, imagesVars, geminiVars>>
notPresummary == <<splitVars, sendVars, classVars, pipeVars, parseVars,
    deliverVars, statusVars, digestVars, shouldVars, imagesVars, geminiVars>>
notDigest == <<splitVars, sendVars, classVars, pipeVars, parseVars, deliverVars,
    statusVars, presummaryVars, shouldVars, imagesVars, geminiVars>>
notShould == <<splitVars, sendVars, classVars, pipeVars,
    parseVars, deliverVars, statusVars, presummaryVars,
    digestVars, imagesVars, geminiVars>>
notImages == <<splitVars, sendVars, classVars, pipeVars,
    parseVars, deliverVars, statusVars, presummaryVars,
    digestVars, shouldVars, geminiVars>>
notGemini == <<splitVars, sendVars, classVars, pipeVars,
    parseVars, deliverVars, statusVars, presummaryVars,
    digestVars, shouldVars, imagesVars>>

(***************************************************************************)
(* Bounds of the model.                                                    *)
(***************************************************************************)
MaxTokens == 3      \* a text is built from at most this many tokens
MaxLimit == 13      \* max_length ranges over 1..MaxLimit
MaxParts == 12      \* the split loop is followed for at most this many parts
MaxSendParts == 3   \* send_digest is given at most this many parts
MaxRetries == 3     \* max_retries ranges over 0..MaxRetries
MaxTweets == 3      \* a batch holds at most this many posts
MaxTime == 2        \* the clock runs from 0 to MaxTime
MaxWindow == 1      \* idempotency_window_minutes ranges over 1..MaxWindow
MaxEntries == 2     \* a JSON array holds at most this many entries

(***************************************************************************)
(* Python's string primitives.                                             *)
(***************************************************************************)
NL == "\n"
SP == " "
Whitespace == {NL, SP}

MinOf(S) == CHOOSE x \in S : \A y \in S : x <= y
MaxOf(S) == CHOOSE x \in S : \A y \in S : x >= y

\* A slice index as Python normalises it: negative counts from the end, and
\* the result is clamped to 0..len.
SliceIndex(k, len) ==
    IF k < 0 THEN (IF len + k < 0 THEN 0 ELSE len + k)
    ELSE (IF k > len THEN len ELSE k)

\* s[:k]
SliceTo(s, k) == SubSeq(s, 1, SliceIndex(k, Len(s)))

\* s[k:]
SliceFrom(s, k) == SubSeq(s, SliceIndex(k, Len(s)) + 1, Len(s))

\* s.rstrip()
rstrip(s) ==
    LET keep == {i \in 1..Len(s) : s[i] \notin Whitespace}
    IN  IF keep = {} THEN <<>> ELSE SubSeq(s, 1, MaxOf(keep))

\* s.lstrip()
lstrip(s) ==
    LET keep == {i \in 1..Len(s) : s[i] \notin Whitespace}
    IN  IF keep = {} THEN <<>> ELSE SubSeq(s, MinOf(keep), Len(s))

\* s.rfind(marker, 0, end): the highest 0-based index at which marker occurs
\* wholly inside s[0:end], or -1.
rfind(s, marker, end) ==
    LET stop == SliceIndex(end, Len(s))
        hits == {i \in 0..(stop - Len(marker)) :
                    SubSeq(s, i + 1, i + Len(marker)) = marker}
    IN  IF hits = {} THEN -1 ELSE MaxOf(hits)

\* str(n) for a natural number
RECURSIVE str(_)
str(n) ==
    LET digit == <<"0", "1", "2", "3", "4", "5", "6", "7", "8", "9">>
    IN  IF n < 10 THEN <<digit[n + 1]>>
        ELSE str(n \div 10) \o <<digit[(n % 10) + 1]>>

(***************************************************************************)
(* split_digest                                                            *)
(***************************************************************************)
\* The room the emergency cut leaves for the part indicator.
IndicatorRoom == 10

\* split_markers: two markers per configured section, then the generic ones.
RECURSIVE SectionMarkers(_)
SectionMarkers(secs) ==
    IF secs = <<>> THEN <<>>
    ELSE <<  <<NL, NL, Head(secs)>>, <<NL, NL, "#", "#", SP, Head(secs)>>  >>
         \o SectionMarkers(Tail(secs))

GenericMarkers ==
    <<  <<NL, NL, "#", "#", SP>>, <<NL, NL, "*">>, <<NL, NL>>  >>

SplitMarkers(secs) == SectionMarkers(secs) \o GenericMarkers

\* A loop over the markers that takes the right-most cut of any marker.
MarkerSplitRightMost(text, limit, markers) ==
    LET cuts == {rfind(text, markers[m], limit) : m \in 1..Len(markers)}
    IN  IF MaxOf(cuts) > 0 THEN MaxOf(cuts) ELSE -1

\* The for loop over the markers: the first marker with rfind(...) > 0 decides;
\* -1 stands for None.
MarkerSplit(text, limit, markers) ==
    LET found == {m \in 1..Len(markers) : rfind(text, markers[m], limit) > 0}
    IN  IF found = {} THEN -1
        ELSE rfind(text, markers[MinOf(found)], limit)

\* split_at of one iteration.
SplitAt(text, limit, secs) ==
    LET at == MarkerSplit(text, limit, SplitMarkers(secs))
    IN  IF at = -1 THEN limit - IndicatorRoom ELSE at

\* remaining[:split_at].rstrip()
PartBeforeCut(text, at) == rstrip(SliceTo(text, at))

\* A cut that loses the character at the cut.
RestAfterCutSkipsOne(text, at) == lstrip(SliceFrom(text, at + 1))

\* remaining[split_at:].lstrip()
RestAfterCut(text, at) == lstrip(SliceFrom(text, at))

\* "\n\n_(i/total)_"
PartIndicator(i, total) ==
    <<NL, NL, "_", "(">> \o str(i) \o <<"/">> \o str(total) \o <<")", "_">>

\* The indicators are added only when there is more than one part.
WithIndicators(ps) ==
    IF Len(ps) > 1
    THEN [i \in 1..Len(ps) |-> ps[i] \o PartIndicator(i, Len(ps))]
    ELSE ps

\* The texts the model splits: up to MaxTokens tokens, joined.
Tokens ==
    {  <<"a", "a", "a", "a">>,
       <<"a", "a", "a", "a", "a", "a", "a">>,
       <<SP>>,
       <<NL, NL>>,
       <<NL, NL, "*">>,
       <<NL, NL, "#", "#", SP>>,
       <<NL, NL, "@">>  }

RECURSIVE Join(_)
Join(ts) == IF ts = <<>> THEN <<>> ELSE Head(ts) \o Join(Tail(ts))

Texts == {Join(ts) : ts \in UNION {[1..k -> Tokens] : k \in 0..MaxTokens}}

SectionChoices == {<<>>, <<"@">>}

\* split_digest is not running.
IdleSplit ==
    /\ digest = <<>>
    /\ max_length = 0
    /\ sections = <<>>
    /\ remaining = <<>>
    /\ parts = <<>>
    /\ split_at = -1
    /\ result = <<>>
    /\ split_pc = "idle"

\* send_digest is not running.
IdleSend ==
    /\ n_parts = 0
    /\ max_retries = 0
    /\ part_i = 0
    /\ attempt = 0
    /\ failed_parts = <<>>
    /\ sends = <<>>
    /\ sleeps = <<>>
    /\ send_result = FALSE
    /\ send_pc = "idle"

\* No classification function is running.
IdleClass ==
    /\ tweets = <<>>
    /\ cl_op = "idle"
    /\ cl_arg = 0
    /\ cl_out = <<>>

\* No run_pipeline is running.
IdlePipe ==
    /\ now = 0
    /\ window = 0
    /\ status = <<>>
    /\ runs = <<>>

\* parse_tweets is not running.
IdleParse ==
    /\ json_data = <<>>
    /\ parse_out = <<>>
    /\ parse_pc = "idle"

\* _deliver_digest is not running.
IdleDeliver ==
    /\ dl_digest = <<>>
    /\ dl_provider = "none"
    /\ dl_parts = <<>>
    /\ dl_pc = "idle"

\* No call of load_status or update_status is under way; there is no file.
IdleStatus ==
    /\ file = [kind |-> "missing", lists |-> [n \in {} |-> 0]]
    /\ calls = <<>>

\* presummary_tweets is not running.
IdlePresummary ==
    /\ ps_tweets = <<>>
    /\ ps_config = <<>>
    /\ ps_threads = <<>>
    /\ ps_unit = 0
    /\ ps_results = <<>>
    /\ ps_calls = <<>>
    /\ ps_pc = "idle"

\* generate_digest is not running.
IdleDigest ==
    /\ gd_tweets = <<>>
    /\ gd_images = 0
    /\ gd_provider = "none"
    /\ gd_image_data = <<>>
    /\ gd_fetched = 0
    /\ gd_calls = <<>>
    /\ gd_out = <<>>
    /\ gd_pc = "idle"

\* should_presummary (presummary.py): not running.
IdleShould ==
    /\ sp_content = <<>>
    /\ sp_config = <<>>
    /\ sp_out = FALSE
    /\ sp_pc = "idle"

\* prioritize_images (images.py): not running.
IdleImages ==
    /\ im_tweets = <<>>
    /\ im_max_total = 0
    /\ im_max_per_tweet = 0
    /\ im_out = <<>>
    /\ im_pc = "idle"

\* GeminiProvider.generate (llm/gemini.py): not running.
IdleGemini ==
    /\ gm_images = "none"
    /\ gm_reply = <<>>
    /\ gm_out = <<>>
    /\ gm_pc = "idle"

InitSplit ==
    /\ IdleGemini
    /\ IdleImages
    /\ IdleShould
    /\ IdleDeliver
    /\ IdleStatus
    /\ IdlePresummary
    /\ IdleDigest
    /\ IdleSend
    /\ IdleClass
    /\ IdlePipe
    /\ IdleParse
    /\ digest \in Texts
    /\ max_length \in 1..MaxLimit
    /\ sections \in SectionChoices
    /\ remaining = <<>>
    /\ parts = <<>>
    /\ split_at = -1
    /\ result = <<>>
    /\ split_pc = "call"

\* Lines 305-325: the early return, or the entry into the loop.
SplitEnter ==
    /\ split_pc = "call"
    /\ IF Len(digest) <= max_length
       THEN /\ result' = <<digest>>
            /\ split_pc' = "returned"
            /\ UNCHANGED <<remaining, parts>>
       ELSE /\ remaining' = digest
            /\ parts' = <<>>
            /\ split_pc' = "loop"
            /\ UNCHANGED result
    /\ UNCHANGED <<digest, max_length, sections, split_at>>
    /\ UNCHANGED notSplit

\* Lines 327-342: one iteration of the while loop.
SplitIteration ==
    /\ split_pc = "loop"
    /\ Len(remaining) > max_length
    /\ Len(parts) < MaxParts
    /\ LET at == SplitAt(remaining, max_length, sections)
       IN  /\ split_at' = at
           /\ parts' = Append(parts, PartBeforeCut(remaining, at))
           /\ remaining' = RestAfterCut(remaining, at)
    /\ UNCHANGED <<digest, max_length, sections, result, split_pc>>
    /\ UNCHANGED notSplit

\* Lines 344-352: the loop has ended; the tail and the indicators.
SplitFinish ==
    /\ split_pc = "loop"
    /\ Len(remaining) <= max_length
    /\ LET all == IF remaining # <<>> THEN Append(parts, remaining) ELSE parts
       IN  /\ parts' = all
           /\ result' = WithIndicators(all)
    /\ split_pc' = "returned"
    /\ UNCHANGED <<digest, max_length, sections, remaining, split_at>>
    /\ UNCHANGED notSplit

NextSplit == SplitEnter \/ SplitIteration \/ SplitFinish

SpecSplit == InitSplit /\ [][NextSplit]_vars

(***************************************************************************)
(* send_digest                                                             *)
(***************************************************************************)
RECURSIVE Pow2(_)
Pow2(n) == IF n = 0 THEN 1 ELSE 2 * Pow2(n - 1)

\* time.sleep(2 ** attempt)
BackoffSeconds(att) == Pow2(att)

\* attempt < max_retries - 1: another attempt follows, so the loop sleeps.
SleepsAfter(att, retries) == att < retries - 1

InitSend ==
    /\ IdleGemini
    /\ IdleImages
    /\ IdleShould
    /\ IdleDeliver
    /\ IdleStatus
    /\ IdlePresummary
    /\ IdleDigest
    /\ IdlePipe
    /\ IdleParse
    /\ IdleSplit
    /\ IdleClass
    /\ n_parts \in 0..MaxSendParts
    /\ max_retries \in 0..MaxRetries
    /\ part_i = 0
    /\ attempt = 0
    /\ failed_parts = <<>>
    /\ sends = <<>>
    /\ sleeps = <<>>
    /\ send_result = FALSE
    /\ send_pc = "sending"

\* Lines 188-192: provider.send returns; success = True, break, next part.
SendSucceeds ==
    /\ send_pc = "sending"
    /\ part_i < n_parts
    /\ attempt < max_retries
    /\ sends' = Append(sends, [part |-> part_i, ok |-> TRUE])
    /\ part_i' = part_i + 1
    /\ attempt' = 0
    /\ UNCHANGED <<n_parts, max_retries, failed_parts, sleeps, send_result, send_pc>>
    /\ UNCHANGED notSend

\* A send loop that gives up on the whole digest once a part has failed all
\* its attempts.
SendFailsAborts ==
    /\ send_pc = "sending"
    /\ part_i < n_parts
    /\ attempt < max_retries
    /\ sends' = Append(sends, [part |-> part_i, ok |-> FALSE])
    /\ sleeps' = IF SleepsAfter(attempt, max_retries)
                 THEN Append(sleeps, [part |-> part_i, seconds |-> BackoffSeconds(attempt)])
                 ELSE sleeps
    /\ IF attempt + 1 < max_retries
       THEN /\ attempt' = attempt + 1
            /\ UNCHANGED <<part_i, failed_parts>>
       ELSE /\ failed_parts' = Append(failed_parts, part_i)
            /\ part_i' = n_parts
            /\ attempt' = 0
    /\ UNCHANGED <<n_parts, max_retries, send_result, send_pc>>
    /\ UNCHANGED notSend

\* Lines 188-199: provider.send raises DeliveryError; the loop sleeps and tries
\* again, or, after the last attempt, records the part as failed and goes on.
SendFails ==
    /\ send_pc = "sending"
    /\ part_i < n_parts
    /\ attempt < max_retries
    /\ sends' = Append(sends, [part |-> part_i, ok |-> FALSE])
    /\ sleeps' = IF SleepsAfter(attempt, max_retries)
                 THEN Append(sleeps, [part |-> part_i, seconds |-> BackoffSeconds(attempt)])
                 ELSE sleeps
    /\ IF attempt + 1 < max_retries
       THEN /\ attempt' = attempt + 1
            /\ UNCHANGED <<part_i, failed_parts>>
       ELSE /\ failed_parts' = Append(failed_parts, part_i)
            /\ part_i' = part_i + 1
            /\ attempt' = 0
    /\ UNCHANGED <<n_parts, max_retries, send_result, send_pc>>
    /\ UNCHANGED notSend

\* Lines 186-199 with range(max_retries) empty: no attempt is made.
SendNoAttempt ==
    /\ send_pc = "sending"
    /\ part_i < n_parts
    /\ max_retries <= 0
    /\ failed_parts' = Append(failed_parts, part_i)
    /\ part_i' = part_i + 1
    /\ UNCHANGED <<n_parts, max_retries, attempt, sends, sleeps, send_result, send_pc>>
    /\ UNCHANGED notSend

\* Line 201: return len(failed_parts) == 0.
SendReturn ==
    /\ send_pc = "sending"
    /\ part_i >= n_parts
    /\ send_result' = (Len(failed_parts) = 0)
    /\ send_pc' = "returned"
    /\ UNCHANGED <<n_parts, max_retries, part_i, attempt, failed_parts, sends, sleeps>>
    /\ UNCHANGED notSend

NextSend == SendSucceeds \/ SendFails \/ SendNoAttempt \/ SendReturn

SpecSend == InitSend /\ [][NextSend]_vars

(***************************************************************************)
(* The post model (models.py) and the classification engine (classify.py). *)
(* An id is a positive number; NoId stands for None.  An Optional[Tweet]   *)
(* is a sequence of at most one quoted post.                               *)
(***************************************************************************)
NoId == 0

NoTweet == <<>>

Quoted(q) == <<[id |-> q]>>

Tweet(id, text, created_at, conversation_id, quoted_tweet, in_reply_to_status_id) ==
    [id |-> id, text |-> text, created_at |-> created_at,
     conversation_id |-> conversation_id, quoted_tweet |-> quoted_tweet,
     in_reply_to_status_id |-> in_reply_to_status_id]

\* text.startswith(prefix)
startswith(text, prefix) ==
    Len(prefix) <= Len(text) /\ SubSeq(text, 1, Len(prefix)) = prefix

RetweetPrefix == <<"R", "T", " ", "@">>

\* A classification that looks at the quote before the retweet prefix.
classify_tweet_quote_first(tweet) ==
    IF tweet.quoted_tweet # NoTweet THEN "quote"
    ELSE IF startswith(tweet.text, RetweetPrefix) THEN "retweet"
    ELSE IF tweet.in_reply_to_status_id # NoId THEN "reply"
    ELSE "standalone"

classify_tweet(tweet) ==
    IF startswith(tweet.text, RetweetPrefix) THEN "retweet"
    ELSE IF tweet.quoted_tweet # NoTweet THEN "quote"
    ELSE IF tweet.in_reply_to_status_id # NoId THEN "reply"
    ELSE "standalone"

\* parse_twitter_date: the seconds since the epoch of the dates the model uses;
\* a string that does not parse gives the epoch, never an exception.
KnownDates ==
    [s \in {"2026-02-04T19:00:01Z", "2026-02-04T19:00:02Z"} |->
        IF s = "2026-02-04T19:00:01Z" THEN 1770231601 ELSE 1770231602]

\* Strings that datetime.fromisoformat reads without a timezone and that
\* parse_twitter_date returns as they are (line 42): a '-' between date and
\* time makes the third '-' of the string.
NaiveDates ==
    [s \in {"2026-02-03-19:00:00"} |-> 1770145200]

\* parse_twitter_date(date_str): the datetime, as seconds and whether it
\* carries a timezone; the epoch for a string that does not parse.
parse_twitter_date(date_str) ==
    IF date_str \in DOMAIN KnownDates
    THEN [aware |-> TRUE, at |-> KnownDates[date_str]]
    ELSE IF date_str \in DOMAIN NaiveDates
    THEN [aware |-> FALSE, at |-> NaiveDates[date_str]]
    ELSE [aware |-> TRUE, at |-> 0]

\* sorted(thread_tweets, key=...): a stable insertion sort.
RECURSIVE sorted_by_date(_)
sorted_by_date(seq) ==
    IF seq = <<>> THEN <<>>
    ELSE LET front == sorted_by_date(SubSeq(seq, 1, Len(seq) - 1))
             last == seq[Len(seq)]
             pos == Cardinality({i \in 1..Len(front) :
                        parse_twitter_date(front[i].created_at).at
                            <= parse_twitter_date(last.created_at).at})
         IN  SubSeq(front, 1, pos) \o <<last>> \o SubSeq(front, pos + 1, Len(front))

\* sorted raises TypeError when it compares a datetime without timezone to
\* one with: it does whenever the list holds both.
SortRaises(seq) ==
    \E i, j \in 1..Len(seq) :
        parse_twitter_date(seq[i].created_at).aware
            # parse_twitter_date(seq[j].created_at).aware

\* The keys of the threads dict, in insertion order.
RECURSIVE ConversationIds(_)
ConversationIds(seq) ==
    IF seq = <<>> THEN <<>>
    ELSE LET front == ConversationIds(SubSeq(seq, 1, Len(seq) - 1))
             conv == seq[Len(seq)].conversation_id
         IN  IF \E i \in 1..Len(front) : front[i] = conv THEN front
             ELSE Append(front, conv)

InConversation(conv, tweet) == tweet.conversation_id = conv

\* A grouping that loses the post that opens a conversation.
ThreadMembersWithoutFirst(seq, conv) ==
    Tail(SelectSeq(seq, LAMBDA t : InConversation(conv, t)))

\* threads[conv_id] after the grouping loop.
ThreadMembers(seq, conv) == SelectSeq(seq, LAMBDA t : InConversation(conv, t))

\* reconstruct_threads: the dict as a sequence of entries in insertion order.
reconstruct_threads(seq) ==
    LET keys == ConversationIds(seq)
    IN  [k \in 1..Len(keys) |->
            [conversation_id |-> keys[k],
             tweets |-> IF SortRaises(ThreadMembers(seq, keys[k]))
                        THEN ThreadMembers(seq, keys[k])
                        ELSE sorted_by_date(ThreadMembers(seq, keys[k]))]]

\* A completeness check that looks for the root only in the first post.
classify_thread_completeness_first_root(thread) ==
    IF thread = <<>> THEN "complete"
    ELSE IF Len(thread) = 1 THEN "complete"
    ELSE IF thread[1].id # thread[1].conversation_id THEN "partial_no_root"
    ELSE LET tweet_ids == {thread[i].id : i \in 1..Len(thread)}
             gaps == {i \in 1..Len(thread) :
                        /\ thread[i].in_reply_to_status_id # NoId
                        /\ thread[i].in_reply_to_status_id \notin tweet_ids}
         IN  IF gaps # {} THEN "partial_with_root" ELSE "complete"

classify_thread_completeness(thread) ==
    IF thread = <<>> THEN "complete"
    ELSE IF Len(thread) = 1 THEN "complete"
    ELSE IF ~(\E i \in 1..Len(thread) : thread[i].id = thread[i].conversation_id)
         THEN "partial_no_root"
    ELSE LET tweet_ids == {thread[i].id : i \in 1..Len(thread)}
             gaps == {i \in 1..Len(thread) :
                        /\ thread[i].in_reply_to_status_id # NoId
                        /\ thread[i].in_reply_to_status_id \notin tweet_ids}
         IN  IF gaps # {} THEN "partial_with_root" ELSE "complete"

\* quoted_ids: the ids of the batch that a post of the batch quotes.
QuotedIds(seq) ==
    LET tweet_ids_in_batch == {seq[i].id : i \in 1..Len(seq)}
    IN  {seq[i].quoted_tweet[1].id :
            i \in {j \in 1..Len(seq) :
                     /\ seq[j].quoted_tweet # NoTweet
                     /\ seq[j].quoted_tweet[1].id \in tweet_ids_in_batch}}

\* A deduplication that drops the quoting post instead of the quoted one.
dedupe_quotes_drops_quoter(seq) ==
    LET tweet_ids_in_batch == {seq[i].id : i \in 1..Len(seq)}
    IN  SelectSeq(seq, LAMBDA t : \/ t.quoted_tweet = NoTweet
                                  \/ t.quoted_tweet[1].id \notin tweet_ids_in_batch)

dedupe_quotes(seq) == SelectSeq(seq, LAMBDA t : t.id \notin QuotedIds(seq))

\* The posts of the single-post threads whose classification is kind, in dict order.
SinglesOfKind(threads, kind) ==
    LET single == SelectSeq(threads, LAMBDA th : Len(th.tweets) = 1)
        ofKind == SelectSeq(single, LAMBDA th : classify_tweet(th.tweets[1]) = kind)
    IN  [k \in 1..Len(ofKind) |-> ofKind[k].tweets[1]]

\* A categorisation that files every reply under "replies", thread member or not.
categorize_tweets_replies_always(seq) ==
    LET threads == reconstruct_threads(seq)
        multi == SelectSeq(threads, LAMBDA th : Len(th.tweets) > 1)
    IN  [standalone |-> SinglesOfKind(threads, "standalone"),
         threads |-> [k \in 1..Len(multi) |-> multi[k].tweets],
         quotes |-> SinglesOfKind(threads, "quote"),
         replies |-> SelectSeq(seq, LAMBDA t : classify_tweet(t) = "reply"),
         retweets |-> SinglesOfKind(threads, "retweet")]

categorize_tweets(seq) ==
    LET threads == reconstruct_threads(seq)
        multi == SelectSeq(threads, LAMBDA th : Len(th.tweets) > 1)
    IN  [standalone |-> SinglesOfKind(threads, "standalone"),
         threads |-> [k \in 1..Len(multi) |-> multi[k].tweets],
         quotes |-> SinglesOfKind(threads, "quote"),
         replies |-> SinglesOfKind(threads, "reply"),
         retweets |-> SinglesOfKind(threads, "retweet")]

RECURSIVE SumLen(_)
SumLen(threads) ==
    IF threads = <<>> THEN 0
    ELSE Len(Head(threads).tweets) + SumLen(Tail(threads))

CountCompleteness(threads, value) ==
    Cardinality({k \in 1..Len(threads) :
                    classify_thread_completeness(threads[k].tweets) = value})

get_thread_stats(threads) ==
    LET single == Cardinality({k \in 1..Len(threads) : Len(threads[k].tweets) = 1})
    IN  [total_threads |-> Len(threads),
         single_tweets |-> single,
         multi_tweet_threads |-> Len(threads) - single,
         total_tweets |-> SumLen(threads),
         complete_threads |-> CountCompleteness(threads, "complete"),
         partial_with_root |-> CountCompleteness(threads, "partial_with_root"),
         partial_no_root |-> Len(threads) - CountCompleteness(threads, "complete")
                                - CountCompleteness(threads, "partial_with_root")]

\* The batches the model classifies.  The post at position i has id i, so the
\* ids of a batch are distinct; OutsideId is the id of a post outside the batch.
OutsideId == MaxTweets + 1

PlainText == <<"R", "T", " ", "h", "i">>
RetweetText == <<"R", "T", " ", "@", "u", ":", " ", "h", "i">>

FirstDate == "2026-02-04T19:00:01Z"
SecondDate == "2026-02-04T19:00:02Z"
BadDate == "not a date"
NaiveDate == "2026-02-03-19:00:00"

ConversationChoices == {1, 2}

BatchesOf(Choices(_), make(_, _)) ==
    UNION {{[i \in 1..k |-> make(i, f[i])] : f \in [1..k -> Choices(k)]} :
              k \in 0..MaxTweets}

\* Posts that quote each other, or a post outside the batch; never themselves.
QuoteChoices(k) == {NoTweet} \cup {Quoted(j) : j \in (1..k) \cup {OutsideId}}

\* Whether following the quotes from the post with id cur leads to id start.
RECURSIVE QuoteChainReaches(_, _, _, _)
QuoteChainReaches(b, start, cur, fuel) ==
    /\ fuel > 0
    /\ cur \in 1..Len(b)
    /\ b[cur].quoted_tweet # NoTweet
    /\ \/ b[cur].quoted_tweet[1].id = start
       \/ QuoteChainReaches(b, start, b[cur].quoted_tweet[1].id, fuel - 1)

\* A post quotes an older post: no post quotes itself, directly or through others.
QuoteBatches ==
    {b \in BatchesOf(QuoteChoices,
                     LAMBDA i, q : Tweet(i, PlainText, FirstDate, i, q, NoId)) :
        \A i \in 1..Len(b) : ~QuoteChainReaches(b, i, i, Len(b))}

\* Posts of two conversations that reply to each other or to a post outside.
ReplyChoices(k) == ConversationChoices \X ({NoId, 1, 2, OutsideId})

ReplyBatches ==
    BatchesOf(ReplyChoices,
              LAMBDA i, c : Tweet(i, PlainText, FirstDate, c[1], NoTweet, c[2]))

\* Posts of two conversations with dates in any order, some of them unparsable.
DateChoices(k) == ConversationChoices \X {FirstDate, SecondDate, BadDate, NaiveDate}

DateBatches ==
    BatchesOf(DateChoices,
              LAMBDA i, c : Tweet(i, PlainText, c[2], c[1], NoTweet, NoId))

\* Posts of two conversations of every kind: any mix of the retweet prefix, a
\* quoted post and a reply parent.
KindChoices(k) ==
    ConversationChoices \X {PlainText, RetweetText}
        \X {NoTweet, Quoted(OutsideId)} \X {NoId, OutsideId}

KindBatches ==
    BatchesOf(KindChoices,
              LAMBDA i, c : Tweet(i, c[2], FirstDate, c[1], c[3], c[4]))

InitClass ==
    /\ IdleGemini
    /\ IdleImages
    /\ IdleShould
    /\ IdleDeliver
    /\ IdleStatus
    /\ IdlePresummary
    /\ IdleDigest
    /\ IdlePipe
    /\ IdleParse
    /\ IdleSplit
    /\ IdleSend
    /\ tweets \in QuoteBatches \cup ReplyBatches \cup DateBatches \cup KindBatches
    /\ cl_op = "none"
    /\ cl_arg = 0
    /\ cl_out = <<>>

\* classify_tweet(tweets[k]) for a post of the batch.
DoClassifyTweet ==
    /\ cl_op = "none"
    /\ \E k \in 1..Len(tweets) :
          /\ cl_arg' = k
          /\ cl_out' = classify_tweet(tweets[k])
    /\ cl_op' = "classify_tweet"
    /\ UNCHANGED tweets
    /\ UNCHANGED notClass

DoReconstructThreads ==
    /\ cl_op = "none"
    /\ cl_out' = reconstruct_threads(tweets)
    /\ cl_op' = "reconstruct_threads"
    /\ UNCHANGED <<tweets, cl_arg>>
    /\ UNCHANGED notClass

\* classify_thread_completeness, the batch taken as one thread.
DoThreadCompleteness ==
    /\ cl_op = "none"
    /\ cl_out' = classify_thread_completeness(tweets)
    /\ cl_op' = "classify_thread_completeness"
    /\ UNCHANGED <<tweets, cl_arg>>
    /\ UNCHANGED notClass

DoDedupeQuotes ==
    /\ cl_op = "none"
    /\ cl_out' = dedupe_quotes(tweets)
    /\ cl_op' = "dedupe_quotes"
    /\ UNCHANGED <<tweets, cl_arg>>
    /\ UNCHANGED notClass

DoCategorizeTweets ==
    /\ cl_op = "none"
    /\ cl_out' = categorize_tweets(tweets)
    /\ cl_op' = "categorize_tweets"
    /\ UNCHANGED <<tweets, cl_arg>>
    /\ UNCHANGED notClass

\* get_thread_stats(reconstruct_threads(tweets)), as run_pipeline calls it.
DoThreadStats ==
    /\ cl_op = "none"
    /\ cl_out' = get_thread_stats(reconstruct_threads(tweets))
    /\ cl_op' = "get_thread_stats"
    /\ UNCHANGED <<tweets, cl_arg>>
    /\ UNCHANGED notClass

NextClass ==
    \/ DoClassifyTweet
    \/ DoReconstructThreads
    \/ DoThreadCompleteness
    \/ DoDedupeQuotes
    \/ DoCategorizeTweets
    \/ DoThreadStats

SpecClass == InitClass /\ [][NextClass]_vars

(***************************************************************************)
(* run_pipeline (cli.py) over the status file (status.py).                 *)
(*                                                                         *)
(* One list is followed.  Time is counted in minutes.  A stored timestamp  *)
(* is None, a string that fromisoformat rejects, or a time.  The list's    *)
(* part of the status file is a sequence: empty when the file has no entry *)
(* for the list, else the one entry.  A load_status or update_status call  *)
(* is one step, as it holds the file lock for its read or its              *)
(* read-modify-write; the lock is released between two calls.              *)
(***************************************************************************)
NoStamp == [kind |-> "none", at |-> 0]
BadStamp == [kind |-> "invalid", at |-> 0]
Stamp(t) == [kind |-> "time", at |-> t]

NoError == "none"
DELIVERY_SEND_FAILED == "DELIVERY_SEND_FAILED"

_create_default_list_entry ==
    [last_run |-> NoStamp, last_success |-> NoStamp, error_code |-> NoError,
     tweets_fetched |-> 0, digest_sent |-> FALSE]

\* update_status(status_path, list_name, **kwargs): fields is kwargs.
update_status(st, fields) ==
    LET entry == IF st = <<>> THEN _create_default_list_entry ELSE st[1]
    IN  <<[k \in DOMAIN entry |->
             IF k \in DOMAIN fields THEN fields[k] ELSE entry[k]]>>

\* should_run with the comparison turned around at the boundary: a
\* last_run exactly window_minutes old allows the run.
should_run_inclusive(st, window_minutes, t) ==
    IF st = <<>> THEN TRUE
    ELSE IF st[1].last_run.kind = "none" THEN TRUE
    ELSE IF st[1].last_run.kind = "invalid" THEN TRUE
    ELSE t - st[1].last_run.at >= window_minutes

\* should_run(list_name, status, window_minutes) called at time t.
should_run(st, window_minutes, t) ==
    IF st = <<>> THEN TRUE
    ELSE IF st[1].last_run.kind = "none" THEN TRUE
    ELSE IF st[1].last_run.kind = "invalid" THEN TRUE
    ELSE t - st[1].last_run.at > window_minutes

DefaultLookback == 24 * 60

\* get_time_window(list_name, status) called at time t: the start time.
get_time_window(st, t) ==
    IF st = <<>> THEN t - DefaultLookback
    ELSE IF st[1].last_success.kind = "time" THEN st[1].last_success.at
    ELSE t - DefaultLookback

\* _filter_tweets_by_time(tweets, since), on the posts' creation times.
_filter_tweets_by_time(created, since) == {c \in created : c >= since}

Procs == {"first", "second"}

\* Where an invocation is once it is over: it returned, or an error escaped.
PipeExits == {"returned", "raised"}

\* How many posts a fetch returns: none or some.
FetchCounts == {0, 1}

\* How old a stored timestamp is when the invocations start: just written,
\* exactly window_minutes old, or older.
StoredAges(window_minutes) == {0, window_minutes, window_minutes + 1}

\* What the status file can hold when the invocations start.
StoredStatuses(window_minutes) ==
    {<<>>}
    \cup {<<[_create_default_list_entry EXCEPT !.last_run = r, !.last_success = s]>> :
            r \in {NoStamp, BadStamp}, s \in {NoStamp, BadStamp}}
    \cup {<<[_create_default_list_entry EXCEPT !.last_run = Stamp(0 - a),
                                               !.last_success = NoStamp]>> :
            a \in StoredAges(window_minutes)}
    \cup {<<[_create_default_list_entry EXCEPT !.last_run = Stamp(0 - a),
                                               !.last_success = Stamp(0 - a)]>> :
            a \in StoredAges(window_minutes)}

\* The arguments of one invocation, and its locals before it starts.
Invocations ==
    {[pc |-> "start", force |-> f, preview |-> pv, dry_run |-> d,
      since |-> 0, fetched_at |-> 0, n |-> 0, effects |-> {}, delivery |-> "none",
      ret |-> "none", alone |-> FALSE] :
        f \in BOOLEAN, pv \in BOOLEAN, d \in BOOLEAN}

InitPipeline ==
    /\ IdleGemini
    /\ IdleImages
    /\ IdleShould
    /\ IdleDeliver
    /\ IdleStatus
    /\ IdlePresummary
    /\ IdleDigest
    /\ IdleParse
    /\ IdleSplit
    /\ IdleSend
    /\ IdleClass
    /\ now = 0
    /\ window \in 1..MaxWindow
    /\ status \in StoredStatuses(window)
    /\ runs \in [Procs -> Invocations]

\* Time passes while an invocation is under way.
Tick ==
    /\ now < MaxTime
    /\ \E p \in Procs : runs[p].pc \notin PipeExits
    /\ now' = now + 1
    /\ UNCHANGED <<window, status, runs>>
    /\ UNCHANGED notPipe

\* No other invocation is under way: each has yet to start or is over.
Alone(p) == \A q \in Procs \ {p} : runs[q].pc \in PipeExits \cup {"start"}

\* The idempotency check.  The invocations overlap or follow each other:
\* "second" is the one that starts later, while "first" is under way or
\* over; alone records which of the two it was.
PipeCheck(p) ==
    /\ runs[p].pc = "start"
    /\ p = "second" => runs["first"].pc # "start"
    /\ IF ~runs[p].force /\ ~should_run(status, window, now)
       THEN runs' = [runs EXCEPT ![p].pc = "returned", ![p].ret = "True",
                                 ![p].alone = Alone(p)]
       ELSE runs' = [runs EXCEPT ![p].pc = "fetch", ![p].alone = Alone(p)]
    /\ UNCHANGED <<now, window, status>>
    /\ UNCHANGED notPipe

\* The second load_status, the time window, and fetch_tweets_from_bird
\* returning k posts.
PipeFetch(p) ==
    /\ runs[p].pc = "fetch"
    /\ \E k \in FetchCounts :
         runs' = [runs EXCEPT ![p].pc = "mark", ![p].n = k, ![p].fetched_at = now,
                              ![p].since = get_time_window(status, now),
                              ![p].effects = @ \cup {"fetch"}]
    /\ UNCHANGED <<now, window, status>>
    /\ UNCHANGED notPipe

\* fetch_tweets_from_bird raises BirdError.
PipeFetchRaises(p) ==
    /\ runs[p].pc = "fetch"
    /\ runs' = [runs EXCEPT ![p].pc = "raised", ![p].effects = @ \cup {"fetch_failed"}]
    /\ UNCHANGED <<now, window, status>>
    /\ UNCHANGED notPipe

\* update_status(last_run=now, tweets_fetched=len(tweets)); with posts, the
\* classification and the image statistics follow, and a preview ends there.
PipeMark(p) ==
    /\ runs[p].pc = "mark"
    /\ status' = update_status(status, [last_run |-> Stamp(now),
                                        tweets_fetched |-> runs[p].n])
    /\ runs' = [runs EXCEPT
                  ![p].pc = IF runs[p].n = 0 THEN "empty"
                            ELSE IF runs[p].preview THEN "returned"
                            ELSE "generate",
                  ![p].ret = IF runs[p].n > 0 /\ runs[p].preview THEN "True" ELSE @,
                  ![p].effects = @ \cup {"write"}]
    /\ UNCHANGED <<now, window>>
    /\ UNCHANGED notPipe

\* _deliver_digest as run_pipeline sees it: the digest went out or it did not.
Delivery(ok) == IF ok THEN "ok" ELSE "failed"

\* No posts in the window: the quiet-period digest.
PipeEmpty(p) ==
    /\ runs[p].pc = "empty"
    /\ \/ /\ runs[p].preview
          /\ runs' = [runs EXCEPT ![p].pc = "returned", ![p].ret = "True"]
          /\ UNCHANGED status
       \/ /\ ~runs[p].preview
          /\ runs[p].dry_run
          /\ status' = update_status(status, [last_success |-> Stamp(now),
                                              error_code |-> NoError])
          /\ runs' = [runs EXCEPT ![p].pc = "returned", ![p].ret = "True"]
       \/ /\ ~runs[p].preview
          /\ ~runs[p].dry_run
          /\ status' = update_status(status, [last_success |-> Stamp(now),
                                              error_code |-> NoError])
          /\ \E ok \in BOOLEAN :
               runs' = [runs EXCEPT ![p].pc = "returned", ![p].ret = "True",
                                    ![p].delivery = Delivery(ok),
                                    ![p].effects = @ \cup {"deliver"}]
    /\ UNCHANGED <<now, window>>
    /\ UNCHANGED notPipe

\* Pre-summarization and digest generation with the LLM provider.
PipeGenerate(p) ==
    /\ runs[p].pc = "generate"
    /\ runs' = [runs EXCEPT ![p].pc = "deliver", ![p].effects = @ \cup {"llm"}]
    /\ UNCHANGED <<now, window, status>>
    /\ UNCHANGED notPipe

\* GEMINI_API_KEY is not set: LLMError escapes.
PipeGenerateRaises(p) ==
    /\ runs[p].pc = "generate"
    /\ runs' = [runs EXCEPT ![p].pc = "raised"]
    /\ UNCHANGED <<now, window, status>>
    /\ UNCHANGED notPipe

\* Step 7: print the digest (dry-run) or deliver it, and record the outcome.
PipeDeliver(p) ==
    /\ runs[p].pc = "deliver"
    /\ \/ /\ runs[p].dry_run
          /\ status' = update_status(status, [last_success |-> Stamp(now),
                                              error_code |-> NoError,
                                              digest_sent |-> FALSE])
          /\ runs' = [runs EXCEPT ![p].pc = "returned", ![p].ret = "True"]
       \/ /\ ~runs[p].dry_run
          /\ status' = update_status(status, [last_success |-> Stamp(now),
                                              error_code |-> NoError,
                                              digest_sent |-> TRUE])
          /\ runs' = [runs EXCEPT ![p].pc = "returned", ![p].ret = "True",
                                  ![p].delivery = Delivery(TRUE),
                                  ![p].effects = @ \cup {"deliver"}]
       \/ /\ ~runs[p].dry_run
          /\ status' = update_status(status, [error_code |-> DELIVERY_SEND_FAILED])
          /\ runs' = [runs EXCEPT ![p].pc = "returned", ![p].ret = "False",
                                  ![p].delivery = Delivery(FALSE),
                                  ![p].effects = @ \cup {"deliver"}]
    /\ UNCHANGED <<now, window>>
    /\ UNCHANGED notPipe

NextPipeline ==
    \/ Tick
    \/ \E p \in Procs : PipeCheck(p)
    \/ \E p \in Procs : PipeFetch(p)
    \/ \E p \in Procs : PipeFetchRaises(p)
    \/ \E p \in Procs : PipeMark(p)
    \/ \E p \in Procs : PipeEmpty(p)
    \/ \E p \in Procs : PipeGenerate(p)
    \/ \E p \in Procs : PipeGenerateRaises(p)
    \/ \E p \in Procs : PipeDeliver(p)

SpecPipeline == InitPipeline /\ [][NextPipeline]_vars

(***************************************************************************)
(* parse_tweets (models.py).                                               *)
(*                                                                         *)
(* A JSON value is null, a string, an integer, the float Infinity (which   *)
(* json.loads accepts), a list or a dict; a dict is a function from its    *)
(* keys.  A call either returns a value or raises: an outcome is           *)
(* [exc |-> "none", val |-> v] or [exc |-> the exception's class].         *)
(***************************************************************************)
JNull == [t |-> "null"]
JStr(s) == [t |-> "str", v |-> s]
JInt(n) == [t |-> "int", v |-> n]
JInf == [t |-> "inf"]
JList(seq) == [t |-> "list", v |-> seq]
JDict(f) == [t |-> "dict", v |-> f]

Returns(v) == [exc |-> "none", val |-> v]
Raises(e) == [exc |-> e]

\* The keys that the code looks up with `in`, spelled out for the case that
\* the container is a string.
Spelled ==
    [id |-> <<"i", "d">>, text |-> <<"t", "e", "x", "t">>,
     author |-> <<"a", "u", "t", "h", "o", "r">>,
     media |-> <<"m", "e", "d", "i", "a">>,
     quotedTweet |-> <<"q", "u", "o", "t", "e", "d", "T", "w", "e", "e", "t">>]

IsSubstring(sub, s) ==
    \E i \in 0..(Len(s) - Len(sub)) : SubSeq(s, i + 1, i + Len(sub)) = sub

\* key in container
Contains(container, key) ==
    CASE container.t = "dict" -> Returns(key \in DOMAIN container.v)
      [] container.t = "str" -> Returns(IsSubstring(Spelled[key], container.v))
      [] container.t = "list" ->
            Returns(\E i \in 1..Len(container.v) : container.v[i] = JStr(Spelled[key]))
      [] OTHER -> Raises("TypeError")

\* container[key], for a key that `in` found
Subscript(container, key) ==
    IF container.t = "dict" THEN Returns(container.v[key]) ELSE Raises("TypeError")

\* container.get(key), with None for a missing key
Get(container, key) ==
    IF container.t # "dict" THEN Raises("AttributeError")
    ELSE IF key \in DOMAIN container.v THEN Returns(container.v[key])
    ELSE Returns(JNull)

\* bool(value)
Truthy(value) ==
    CASE value.t = "null" -> FALSE
      [] value.t = "str" -> value.v # <<>>
      [] value.t = "int" -> value.v # 0
      [] value.t = "list" -> value.v # <<>>
      [] value.t = "dict" -> DOMAIN value.v # {}
      [] OTHER -> TRUE

\* What iterating over the value yields.
Iterate(value) ==
    CASE value.t = "list" -> Returns(value.v)
      [] value.t = "str" -> Returns([i \in 1..Len(value.v) |-> JStr(<<value.v[i]>>)])
      [] OTHER -> Raises("TypeError")

\* str(value) of a string or an integer; the model gives no other value to it.
PyStr(value) == IF value.t = "int" THEN str(value.v) ELSE value.v

\* safe_str(value, default)
safe_str(value, default) == IF value.t = "null" THEN default ELSE PyStr(value)

\* safe_int(value, default): int(value) raises OverflowError for Infinity,
\* which safe_int does not catch.
safe_int(value, default) ==
    CASE value.t = "null" -> Returns(default)
      [] value.t = "int" -> Returns(value.v)
      [] value.t = "inf" -> Raises("OverflowError")
      [] OTHER -> Returns(default)

\* The check of one required field: "ok", or the exception it ends in.
RequiredField(data, field) ==
    LET found == Contains(data, field)
    IN  IF found.exc # "none" THEN found.exc
        ELSE IF ~found.val THEN "KeyError"
        ELSE LET value == Subscript(data, field)
             IN  IF value.exc # "none" THEN value.exc
                 ELSE IF value.val.t = "null" THEN "KeyError"
                 ELSE "ok"

\* The loop over required_fields: the first check that fails, else "ok".
RequiredFields(data) ==
    IF RequiredField(data, "id") # "ok" THEN RequiredField(data, "id")
    ELSE IF RequiredField(data, "text") # "ok" THEN RequiredField(data, "text")
    ELSE RequiredField(data, "author")

\* Media(...) of one item of the media list.
ParseMedia(media_data) ==
    IF media_data.t # "dict" THEN Raises("AttributeError")
    ELSE LET width == safe_int(Get(media_data, "width").val, 0)
         IN  IF width.exc # "none" THEN width
             ELSE Returns([url |-> safe_str(Get(media_data, "url").val, <<>>),
                           width |-> width.val])

\* The media of an entry: None (an empty sequence here, as for an empty
\* list), the parsed items, or the first exception.
ParseMediaList(data) ==
    IF ~("media" \in DOMAIN data.v /\ Truthy(data.v["media"])) THEN Returns(<<>>)
    ELSE LET items == Iterate(data.v["media"])
         IN  IF items.exc # "none" THEN items
             ELSE LET parsed == [i \in 1..Len(items.val) |-> ParseMedia(items.val[i])]
                      bad == {i \in 1..Len(parsed) : parsed[i].exc # "none"}
                  IN  IF bad # {} THEN Raises(parsed[MinOf(bad)].exc)
                      ELSE Returns([i \in 1..Len(parsed) |-> parsed[i].val])

\* _parse_single_tweet(data).  None is an empty sequence for quoted_tweet and
\* in_reply_to_status_id, which are otherwise a sequence of one value.
RECURSIVE _parse_single_tweet(_)
_parse_single_tweet(data) ==
    IF RequiredFields(data) # "ok" THEN Raises(RequiredFields(data))
    ELSE IF data.v["author"].t # "dict" \/ "username" \notin DOMAIN data.v["author"].v
    THEN Raises("ValueError")
    ELSE
    LET media == ParseMediaList(data)
        has_quoted == "quotedTweet" \in DOMAIN data.v /\ Truthy(data.v["quotedTweet"])
        quoted == IF has_quoted THEN _parse_single_tweet(data.v["quotedTweet"])
                  ELSE Returns(<<>>)
        like_count == safe_int(Get(data, "likeCount").val, 0)
        reply_to == Get(data, "inReplyToStatusId").val
    IN  IF media.exc # "none" THEN media
        ELSE IF quoted.exc # "none" THEN quoted
        ELSE IF like_count.exc # "none" THEN like_count
        ELSE Returns(
            [id |-> safe_str(data.v["id"], <<>>),
             text |-> safe_str(Get(data, "text").val, <<>>),
             conversation_id |->
                safe_str(IF "conversationId" \in DOMAIN data.v
                         THEN data.v["conversationId"] ELSE data.v["id"], <<>>),
             username |-> safe_str(Get(data.v["author"], "username").val,
                                   <<"u", "n", "k", "n", "o", "w", "n">>),
             like_count |-> like_count.val,
             media |-> media.val,
             quoted_tweet |-> IF has_quoted THEN <<quoted.val>> ELSE <<>>,
             in_reply_to_status_id |->
                IF Truthy(reply_to) THEN <<safe_str(reply_to, <<>>)>> ELSE <<>>])

\* The exceptions that parse_tweets catches per entry.
SkippedExceptions == {"KeyError", "TypeError", "ValueError"}

\* parse_tweets(json_data) for a list: the posts parsed before position k+1.
RECURSIVE ParsedUpTo(_, _)
ParsedUpTo(data, k) ==
    IF k = 0 THEN Returns(<<>>)
    ELSE LET before == ParsedUpTo(data, k - 1)
             tweet == _parse_single_tweet(data[k])
         IN  IF before.exc # "none" THEN before
             ELSE IF tweet.exc = "none" THEN Returns(Append(before.val, tweet.val))
             ELSE IF tweet.exc \in SkippedExceptions THEN before
             ELSE tweet

parse_tweets(data) == ParsedUpTo(data, Len(data))

\* The entries given to parse_tweets: a well-formed entry, and what becomes
\* of it when one key is dropped or given another value.
GoodEntry(id) ==
    JDict([id |-> JStr(id), text |-> JStr(<<"h", "i">>),
           author |-> JDict([username |-> JStr(<<"u">>)])])

With(d, key, value) ==
    JDict([k \in DOMAIN d.v \cup {key} |-> IF k = key THEN value ELSE d.v[k]])

Without(d, key) == JDict([k \in DOMAIN d.v \ {key} |-> d.v[k]])

EmptyDict == JDict([k \in {} |-> JNull])

GoodMedia == JDict([url |-> JStr(<<"m">>), width |-> JInt(2)])

QuotedEntry == GoodEntry(<<"9">>)

IdValues == {JNull, JStr(<<>>)}
AuthorValues == {JNull, JStr(<<"u">>), EmptyDict, JDict([username |-> JNull])}
MediaValues ==
    {JNull, JList(<<>>), JList(<<GoodMedia>>), JList(<<GoodMedia, JStr(<<"m">>)>>),
     JList(<<JNull>>), JInt(5), JStr(<<"m">>), JList(<<With(GoodMedia, "width", JInf)>>)}
QuotedValues ==
    {JNull, JStr(<<"q">>), QuotedEntry, Without(QuotedEntry, "id"),
     With(QuotedEntry, "media", JList(<<JNull>>))}
ConversationValues == {JNull, JStr(<<>>), JStr(<<"9">>)}
ReplyValues == {JNull, JStr(<<>>), JStr(<<"7">>)}
LikeValues == {JInt(3), JInf}

NotEntries ==
    {JNull, JInt(5), JStr(<<"x">>), JList(<<>>),
     JStr(Spelled["id"] \o Spelled["text"] \o Spelled["author"])}

EntriesOf(g) ==
    {g, Without(g, "id"), Without(g, "text"), Without(g, "author"),
     With(g, "text", JNull)}
    \cup {With(g, "id", v) : v \in IdValues}
    \cup {With(g, "author", v) : v \in AuthorValues}
    \cup {With(g, "media", v) : v \in MediaValues}
    \cup {With(g, "quotedTweet", v) : v \in QuotedValues}
    \cup {With(g, "conversationId", v) : v \in ConversationValues}
    \cup {With(g, "inReplyToStatusId", v) : v \in ReplyValues}
    \cup {With(g, "likeCount", v) : v \in LikeValues}
    \cup NotEntries

\* The arrays: the entry at position i is built from the good entry with id i.
JsonArrays ==
    UNION {{a \in [1..k -> UNION {EntriesOf(GoodEntry(str(i))) : i \in 1..k}] :
                \A i \in 1..k : a[i] \in EntriesOf(GoodEntry(str(i)))} :
              k \in 0..MaxEntries}

InitParse ==
    /\ IdleGemini
    /\ IdleImages
    /\ IdleShould
    /\ IdleDeliver
    /\ IdleStatus
    /\ IdlePresummary
    /\ IdleDigest
    /\ IdleSplit
    /\ IdleSend
    /\ IdleClass
    /\ IdlePipe
    /\ json_data \in JsonArrays
    /\ parse_out = <<>>
    /\ parse_pc = "call"

\* tweets = parse_tweets(json_data)
DoParseTweets ==
    /\ parse_pc = "call"
    /\ parse_out' = parse_tweets(json_data)
    /\ parse_pc' = "returned"
    /\ UNCHANGED json_data
    /\ UNCHANGED notParse

NextParse == DoParseTweets

SpecParse == InitParse /\ [][NextParse]_vars

(***************************************************************************)
(* _deliver_digest (cli.py): split_digest with its default limit, then     *)
(* send_digest through the configured provider.  The provider refuses a    *)
(* message longer than its max_message_length() before it sends anything.  *)
(***************************************************************************)
MAX_MESSAGE_LENGTH == 4000
WhatsAppLimit == 4000
TelegramLimit == 4096
DefaultMaxAttempts == 3

\* provider.max_message_length()
max_message_length(provider) ==
    IF provider = "whatsapp" THEN WhatsAppLimit ELSE TelegramLimit

\* The while loop of split_digest, run to its end.
RECURSIVE SplitLoop(_, _, _, _)
SplitLoop(rest, cut, limit, secs) ==
    IF Len(rest) > limit
    THEN LET at == SplitAt(rest, limit, secs)
         IN  SplitLoop(RestAfterCut(rest, at), Append(cut, PartBeforeCut(rest, at)),
                       limit, secs)
    ELSE IF rest # <<>> THEN Append(cut, rest) ELSE cut

\* split_digest(digest, max_length, sections) as a function of its arguments.
split_digest(text, limit, secs) ==
    IF Len(text) <= limit THEN <<text>>
    ELSE WithIndicators(SplitLoop(text, <<>>, limit, secs))

Filler(n) == [i \in 1..n |-> "a"]

\* Digests around the limit: one paragraph, or two with the break near the
\* limit.
DeliveryDigests ==
    {Filler(n) : n \in {100, 4000, 4001, 7985, 7990}}
    \cup {Filler(a) \o <<NL, NL>> \o Filler(b) :
            a \in {3989, 3991, 3992, 3998}, b \in {100, 3992}}

InitDeliver ==
    /\ IdleGemini
    /\ IdleImages
    /\ IdleShould
    /\ IdleSplit
    /\ IdleStatus
    /\ IdlePresummary
    /\ IdleDigest
    /\ IdleSend
    /\ IdleClass
    /\ IdlePipe
    /\ IdleParse
    /\ dl_digest \in DeliveryDigests
    /\ dl_provider \in {"whatsapp", "telegram"}
    /\ dl_parts = <<>>
    /\ dl_pc = "call"

\* parts = split_digest(digest_text); max_retries from the retry config;
\* send_digest starts.
DeliverSplit ==
    /\ dl_pc = "call"
    /\ dl_parts' = split_digest(dl_digest, MAX_MESSAGE_LENGTH, <<>>)
    /\ dl_pc' = "sending"
    /\ n_parts' = Len(dl_parts')
    /\ max_retries' = DefaultMaxAttempts
    /\ part_i' = 0
    /\ attempt' = 0
    /\ failed_parts' = <<>>
    /\ sends' = <<>>
    /\ sleeps' = <<>>
    /\ send_pc' = "sending"
    /\ UNCHANGED <<dl_digest, dl_provider, send_result>>
    /\ UNCHANGED notDeliver

\* The part that send_digest is sending fits the provider's limit.
PartFits ==
    /\ part_i < Len(dl_parts)
    /\ Len(dl_parts[part_i + 1]) <= max_message_length(dl_provider)

\* provider.send accepts the part and sends it.
DeliverSendSucceeds == dl_pc = "sending" /\ PartFits /\ SendSucceeds

\* provider.send raises DeliveryError: the part is too long, or sending failed.
DeliverSendFails == dl_pc = "sending" /\ SendFails

\* send_digest returns, and _deliver_digest with it.
DeliverReturn == dl_pc = "sending" /\ SendReturn

NextDeliver == DeliverSplit \/ DeliverSendSucceeds \/ DeliverSendFails \/ DeliverReturn

SpecDeliver == InitDeliver /\ [][NextDeliver]_vars

(***************************************************************************)
(* The status file under concurrent calls (status.py).  Each caller is a   *)
(* process making one call of load_status or update_status on the same     *)
(* path; the steps of a call are its system calls: os.path.exists, open,   *)
(* flock, the reads and writes made while the lock is held, and the        *)
(* unlock.  The top-level fields of the document (cookie_status,           *)
(* created_at, last_updated) are left out: only "lists" is followed.       *)
(***************************************************************************)
MaxCallers == 3     \* processes calling at the same time

Callers == 1..MaxCallers

NoLists == [n \in {} |-> 0]

\* The path does not exist.
FileMissing == [kind |-> "missing", lists |-> NoLists]

\* The path exists and holds zero bytes.
FileEmpty == [kind |-> "empty", lists |-> NoLists]

\* The path holds the JSON document whose "lists" member is lists.
FileJson(lists) == [kind |-> "json", lists |-> lists]

\* The list_name arguments.
ListNames == {"ai", "news"}

\* The **kwargs arguments.
Kwargs ==
    {[tweets_fetched |-> 1],
     [digest_sent |-> TRUE],
     [tweets_fetched |-> 2, error_code |-> DELIVERY_SEND_FAILED]}

\* A call before its first step.
LoadCall ==
    [op |-> "load", list |-> "none", fields |-> NoLists, pc |-> "start",
     mode |-> "none", out |-> [kind |-> "pending", lists |-> NoLists]]

UpdateCall(list_name, kwargs) ==
    [op |-> "update", list |-> list_name, fields |-> kwargs, pc |-> "start",
     mode |-> "none", out |-> [kind |-> "pending", lists |-> NoLists]]

CallChoices ==
    {LoadCall} \cup {UpdateCall(l, k) : l \in ListNames, k \in Kwargs}

\* The files the calls can find: none, or one an earlier update_status wrote.
StartFiles ==
    {FileMissing,
     FileJson([n \in {"ai"} |-> update_status(<<>>, [tweets_fetched |-> 1])[1]])}

\* fcntl.flock: who holds the exclusive lock, who holds a shared one.
HoldsExclusive(p) ==
    calls[p].op = "update" /\ calls[p].pc \in {"locked", "unlock"}

HoldsShared(p) == calls[p].op = "load" /\ calls[p].pc = "reading"

\* The "lists" member update_status writes back, having read f.
status_written(f, list_name, kwargs) ==
    LET lists == IF f.kind = "json" THEN f.lists ELSE NoLists
        old == IF list_name \in DOMAIN lists THEN <<lists[list_name]>> ELSE <<>>
    IN  [n \in DOMAIN lists \cup {list_name} |->
            IF n = list_name THEN update_status(old, kwargs)[1] ELSE lists[n]]

InitStatus ==
    /\ IdleGemini
    /\ IdleImages
    /\ IdleShould
    /\ IdleSplit
    /\ IdleSend
    /\ IdleClass
    /\ IdlePipe
    /\ IdleParse
    /\ IdleDeliver
    /\ IdlePresummary
    /\ IdleDigest
    /\ file \in StartFiles
    /\ calls \in [Callers -> CallChoices]

\* update_status, line 83: os.path.exists(status_path) picks the open mode.
UpdateExists(p) ==
    /\ calls[p].op = "update"
    /\ calls[p].pc = "start"
    /\ calls' = [calls EXCEPT
                   ![p].mode = IF file.kind = "missing" THEN "w+" ELSE "r+",
                   ![p].pc = "open"]
    /\ UNCHANGED file
    /\ UNCHANGED notStatus

\* update_status, line 83: open(status_path, mode).  "w+" creates the file or
\* truncates it to zero bytes; "r+" leaves the file as it is.
UpdateOpen(p) ==
    /\ calls[p].op = "update"
    /\ calls[p].pc = "open"
    /\ file' = IF calls[p].mode = "w+" THEN FileEmpty ELSE file
    /\ calls' = [calls EXCEPT ![p].pc = "flock"]
    /\ UNCHANGED notStatus

\* update_status, line 84: flock(LOCK_EX) returns once nobody else holds a lock.
UpdateLock(p) ==
    /\ calls[p].op = "update"
    /\ calls[p].pc = "flock"
    /\ \A q \in Callers \ {p} : ~HoldsExclusive(q) /\ ~HoldsShared(q)
    /\ calls' = [calls EXCEPT ![p].pc = "locked"]
    /\ UNCHANGED file
    /\ UNCHANGED notStatus

\* update_status, lines 87-118: read the file, set the fields, write it back.
UpdateWrite(p) ==
    /\ calls[p].op = "update"
    /\ calls[p].pc = "locked"
    /\ file' = FileJson(status_written(file, calls[p].list, calls[p].fields))
    /\ calls' = [calls EXCEPT ![p].pc = "unlock"]
    /\ UNCHANGED notStatus

\* update_status, line 121: flock(LOCK_UN), and the call returns.
UpdateUnlock(p) ==
    /\ calls[p].op = "update"
    /\ calls[p].pc = "unlock"
    /\ calls' = [calls EXCEPT ![p].pc = "returned"]
    /\ UNCHANGED file
    /\ UNCHANGED notStatus

\* load_status, lines 42-46: without a file the default structure is
\* returned; otherwise the file is opened for reading.
LoadExists(p) ==
    /\ calls[p].op = "load"
    /\ calls[p].pc = "start"
    /\ calls' = IF file.kind = "missing"
                THEN [calls EXCEPT ![p].pc = "returned",
                                   ![p].out = [kind |-> "default",
                                               lists |-> NoLists]]
                ELSE [calls EXCEPT ![p].pc = "flock"]
    /\ UNCHANGED file
    /\ UNCHANGED notStatus

\* load_status, line 48: flock(LOCK_SH) returns once nobody holds the
\* exclusive lock.
LoadLock(p) ==
    /\ calls[p].op = "load"
    /\ calls[p].pc = "flock"
    /\ \A q \in Callers \ {p} : ~HoldsExclusive(q)
    /\ calls' = [calls EXCEPT ![p].pc = "reading"]
    /\ UNCHANGED file
    /\ UNCHANGED notStatus

\* load_status, lines 50-55: json.load; an empty file raises JSONDecodeError,
\* which becomes StatusError(STATUS_FILE_CORRUPT).  The lock is released.
LoadRead(p) ==
    /\ calls[p].op = "load"
    /\ calls[p].pc = "reading"
    /\ calls' = [calls EXCEPT
                   ![p].pc = "returned",
                   ![p].out = IF file.kind = "json"
                              THEN [kind |-> "status", lists |-> file.lists]
                              ELSE [kind |-> "STATUS_FILE_CORRUPT",
                                    lists |-> NoLists]]
    /\ UNCHANGED file
    /\ UNCHANGED notStatus

NextStatus ==
    \E p \in Callers :
        \/ UpdateExists(p)
        \/ UpdateOpen(p)
        \/ UpdateLock(p)
        \/ UpdateWrite(p)
        \/ UpdateUnlock(p)
        \/ LoadExists(p)
        \/ LoadLock(p)
        \/ LoadRead(p)

SpecStatus == InitStatus /\ [][NextStatus]_vars

(***************************************************************************)
(* presummary_tweets (presummary.py).  A post is the record of what the    *)
(* function reads of it: id, conversation_id, created_at, len(text) and    *)
(* len(quoted_tweet.text); the provider's answer to a generate call is     *)
(* any of LLMResponses.                                                    *)
(***************************************************************************)
long_tweet_chars == 500
long_quote_chars == 300
long_combined_chars == 600
thread_min_tweets == 2

\* len(quoted_tweet.text) of a post without quoted_tweet.
NoQuote == -1

\* A summary slot of results: None, or a string.
NoSummary == [t |-> "None", v |-> <<>>]
Summary(text) == [t |-> "str", v |-> text]

\* s.strip()
strip(s) == lstrip(rstrip(s))

\* calculate_content_length(tweet)
calculate_content_length(tweet) ==
    tweet.text_len + (IF tweet.quoted_len # NoQuote THEN tweet.quoted_len ELSE 0)

\* presummary_config.get(key, default)
ConfigGet(config, key, default) ==
    IF key \in DOMAIN config THEN config[key] ELSE default

\* A single-post rule whose comparisons are not strict.
should_presummary_tweet_inclusive(tweet, config) ==
    \/ tweet.text_len >= ConfigGet(config, "long_tweet_chars", long_tweet_chars)
    \/ /\ tweet.quoted_len # NoQuote
       /\ tweet.quoted_len >= ConfigGet(config, "long_quote_chars", long_quote_chars)
    \/ calculate_content_length(tweet)
          >= ConfigGet(config, "long_combined_chars", long_combined_chars)

\* should_presummary(tweet, config) for a single post.
should_presummary_tweet(tweet, config) ==
    \/ tweet.text_len > ConfigGet(config, "long_tweet_chars", long_tweet_chars)
    \/ /\ tweet.quoted_len # NoQuote
       /\ tweet.quoted_len > ConfigGet(config, "long_quote_chars", long_quote_chars)
    \/ calculate_content_length(tweet)
          > ConfigGet(config, "long_combined_chars", long_combined_chars)

\* should_presummary(thread, config) for a list of posts.
should_presummary_thread(thread, config) ==
    \/ Len(thread) >= ConfigGet(config, "thread_min_tweets", thread_min_tweets)
    \/ Len(thread) = 1 /\ should_presummary_tweet(thread[1], config)

\* Whether the loop asks the provider about this entry of threads.
NeedsSummary(thread, config) ==
    IF Len(thread) = 1 THEN should_presummary_tweet(thread[1], config)
    ELSE should_presummary_thread(thread, config)

\* The exception classes that llm_provider.generate raises on failure:
\* LLMError, and from GeminiProvider also AttributeError, when the request
\* fails with a RequestException other than Timeout (gemini.py:77-78 names
\* ErrorCode.LLM_NETWORK_ERROR, which errors.py does not define).
LLMFailures == {"LLMError", "AttributeError"}

\* What a generate call can do: return text, return nothing, or fail.
LLMResponses ==
    {Returns(<<"o", "k">>), Returns(<<SP, "o", "k", NL>>), Returns(<<>>)}
        \cup {Raises(e) : e \in LLMFailures}

\* A summarizer whose except clause catches nothing.
_summarize_uncaught(response) ==
    IF response.exc = "none"
    THEN Returns(IF response.val # <<>> THEN Summary(strip(response.val))
                 ELSE NoSummary)
    ELSE response

\* _summarize_single_tweet and _summarize_thread, given what generate did:
\* summary.strip() if summary else None; None on LLMError; any other
\* exception goes on to the caller.
_summarize(response) ==
    IF response.exc = "none"
    THEN Returns(IF response.val # <<>> THEN Summary(strip(response.val))
                 ELSE NoSummary)
    ELSE IF response.exc = "LLMError" THEN Returns(NoSummary)
    ELSE response

\* An append that gives the summary to the first post of the thread only.
WithSummaryToFirst(res, thread, summary) ==
    res \o [i \in 1..Len(thread) |->
              [tweet |-> thread[i],
               summary |-> IF i = 1 THEN summary ELSE NoSummary]]

\* results after (tweet, summary) was appended for each post of thread.
WithSummary(res, thread, summary) ==
    res \o [i \in 1..Len(thread) |-> [tweet |-> thread[i], summary |-> summary]]

PostShapes ==
    {[text_len |-> 280, quoted_len |-> NoQuote],
     [text_len |-> 501, quoted_len |-> NoQuote],
     [text_len |-> 400, quoted_len |-> 250]}

PresummaryPost(i, choice) ==
    [id |-> i, conversation_id |-> choice[1], created_at |-> FirstDate,
     text_len |-> choice[2].text_len, quoted_len |-> choice[2].quoted_len]

PresummaryChoices(k) == ConversationChoices \X PostShapes

PresummaryConfigs ==
    {[enabled |-> FALSE, thread_min_tweets |-> thread_min_tweets],
     [enabled |-> TRUE, thread_min_tweets |-> thread_min_tweets],
     [enabled |-> TRUE, thread_min_tweets |-> thread_min_tweets + 1]}

InitPresummary ==
    /\ IdleGemini
    /\ IdleImages
    /\ IdleShould
    /\ IdleSplit
    /\ IdleSend
    /\ IdleClass
    /\ IdlePipe
    /\ IdleParse
    /\ IdleDeliver
    /\ IdleStatus
    /\ IdleDigest
    /\ ps_tweets \in BatchesOf(PresummaryChoices, PresummaryPost)
    /\ ps_config \in PresummaryConfigs
    /\ ps_threads = <<>>
    /\ ps_unit = 0
    /\ ps_results = <<>>
    /\ ps_calls = <<>>
    /\ ps_pc = "call"

\* Lines 138-145: with pre-summarization disabled every post gets None and
\* the function returns; otherwise the threads are reconstructed.
PresummaryEnter ==
    /\ ps_pc = "call"
    /\ IF ~ps_config.enabled
       THEN /\ ps_results' = [i \in 1..Len(ps_tweets) |->
                                [tweet |-> ps_tweets[i], summary |-> NoSummary]]
            /\ ps_pc' = "returned"
            /\ UNCHANGED ps_threads
       ELSE /\ ps_threads' = reconstruct_threads(ps_tweets)
            /\ ps_pc' = "loop"
            /\ UNCHANGED ps_results
    /\ UNCHANGED <<ps_tweets, ps_config, ps_unit, ps_calls>>
    /\ UNCHANGED notPresummary

\* Lines 149-168: an entry that needs no summary.
PresummarySkip ==
    /\ ps_pc = "loop"
    /\ ps_unit < Len(ps_threads)
    /\ LET thread == ps_threads[ps_unit + 1].tweets
       IN  /\ ~NeedsSummary(thread, ps_config)
           /\ ps_results' = WithSummary(ps_results, thread, NoSummary)
    /\ ps_unit' = ps_unit + 1
    /\ UNCHANGED <<ps_tweets, ps_config, ps_threads, ps_calls, ps_pc>>
    /\ UNCHANGED notPresummary

\* Lines 149-164: an entry that needs a summary; one generate call is made.
PresummarySummarize ==
    /\ ps_pc = "loop"
    /\ ps_unit < Len(ps_threads)
    /\ LET thread == ps_threads[ps_unit + 1].tweets
       IN  /\ NeedsSummary(thread, ps_config)
           /\ \E response \in LLMResponses :
                 LET summary == _summarize(response)
                 IN  /\ ps_calls' = Append(ps_calls, [unit |-> ps_unit + 1,
                                                      response |-> response])
                     /\ IF summary.exc = "none"
                        THEN /\ ps_results' = WithSummary(ps_results, thread,
                                                          summary.val)
                             /\ ps_unit' = ps_unit + 1
                             /\ UNCHANGED ps_pc
                        ELSE /\ ps_pc' = "raised"
                             /\ UNCHANGED <<ps_results, ps_unit>>
    /\ UNCHANGED <<ps_tweets, ps_config, ps_threads>>
    /\ UNCHANGED notPresummary

\* Line 170: return results.
PresummaryReturn ==
    /\ ps_pc = "loop"
    /\ ps_unit = Len(ps_threads)
    /\ ps_pc' = "returned"
    /\ UNCHANGED <<ps_tweets, ps_config, ps_threads, ps_unit, ps_results, ps_calls>>
    /\ UNCHANGED notPresummary

NextPresummary ==
    PresummaryEnter \/ PresummarySkip \/ PresummarySummarize \/ PresummaryReturn

SpecPresummary == InitPresummary /\ [][NextPresummary]_vars

(***************************************************************************)
(* should_presummary (presummary.py) called on its own: the content is one *)
(* post or a list of posts, the thresholds are configured or left unset.   *)
(***************************************************************************)

\* should_presummary(content, config): isinstance(content, list) picks the rule.
should_presummary(content, config) ==
    IF content.is_list THEN should_presummary_thread(content.items, config)
    ELSE should_presummary_tweet(content.items[1], config)

\* len(text) and len(quoted_tweet.text) on both sides of every threshold.
TextLengths == {0, 2, 3, 4, 5, 300, 301, 499, 500, 501, 600, 601}
QuotedLengths == {NoQuote, 0, 2, 3, 300, 301}

ShouldPosts == [text_len : TextLengths, quoted_len : QuotedLengths]

ShortPost == [text_len |-> 2, quoted_len |-> NoQuote]

ShouldContents ==
    {[is_list |-> FALSE, items |-> <<t>>] : t \in ShouldPosts}
        \cup {[is_list |-> TRUE, items |-> <<>>]}
        \cup {[is_list |-> TRUE, items |-> <<t>>] : t \in ShouldPosts}
        \cup {[is_list |-> TRUE, items |-> [i \in 1..n |-> ShortPost]] :
                 n \in 2..(MaxTweets + 1)}

\* The settings a configuration can carry; load_config accepts positive ones.
ConfiguredThresholds ==
    {[long_tweet_chars |-> 3, long_quote_chars |-> 2, long_combined_chars |-> 4,
      thread_min_tweets |-> m] : m \in {1, 3}}

ShouldConfigs ==
    {[k \in keys |-> c[k]] :
        keys \in SUBSET {"long_tweet_chars", "long_quote_chars",
                         "long_combined_chars", "thread_min_tweets"},
        c \in ConfiguredThresholds}

InitShould ==
    /\ IdleGemini
    /\ IdleImages
    /\ IdleSplit
    /\ IdleSend
    /\ IdleClass
    /\ IdlePipe
    /\ IdleParse
    /\ IdleDeliver
    /\ IdleStatus
    /\ IdlePresummary
    /\ IdleDigest
    /\ sp_content \in ShouldContents
    /\ sp_config \in ShouldConfigs
    /\ sp_out = FALSE
    /\ sp_pc = "call"

DoShouldPresummary ==
    /\ sp_pc = "call"
    /\ sp_out' = should_presummary(sp_content, sp_config)
    /\ sp_pc' = "returned"
    /\ UNCHANGED <<sp_content, sp_config>>
    /\ UNCHANGED notShould

NextShould == DoShouldPresummary

SpecShould == InitShould /\ [][NextShould]_vars

(***************************************************************************)
(* prioritize_images (images.py).  A post is its id, its three counts and  *)
(* its media list; a URL is named by the post and the item it belongs to.  *)
(***************************************************************************)
MaxImagePosts == 3  \* prioritize_images is given at most this many posts

TOKENS_PER_IMAGE == 1900
MAX_IMAGE_TOKENS == 30000
MAX_IMAGES == MAX_IMAGE_TOKENS \div TOKENS_PER_IMAGE
MAX_IMAGES_PER_TWEET == 3

\* get_engagement_score(tweet)
get_engagement_score(tweet) ==
    tweet.like_count + (tweet.retweet_count * 2) + tweet.reply_count

\* tweet_images of one post: a PrioritizedImage for each photo and video,
\* a video with its preview_url; other media types are passed over.
TweetImages(tweet) ==
    LET shown == SelectSeq(tweet.media, LAMBDA m : m.type \in {"photo", "video"})
    IN  [k \in 1..Len(shown) |->
            [tweet_id |-> tweet.id,
             url |-> IF shown[k].type = "photo" THEN shown[k].url
                     ELSE shown[k].preview_url,
             engagement |-> get_engagement_score(tweet)]]

\* A sort that puts an image before the images of equal engagement.
RECURSIVE sort_by_engagement_unstable(_)
sort_by_engagement_unstable(seq) ==
    IF seq = <<>> THEN <<>>
    ELSE LET front == sort_by_engagement_unstable(SubSeq(seq, 1, Len(seq) - 1))
             last == seq[Len(seq)]
             pos == Cardinality({i \in 1..Len(front) :
                                    front[i].engagement > last.engagement})
         IN  SubSeq(front, 1, pos) \o <<last>> \o SubSeq(front, pos + 1, Len(front))

\* list.sort(key=lambda x: x.engagement, reverse=True): stable, descending.
RECURSIVE sort_by_engagement(_)
sort_by_engagement(seq) ==
    IF seq = <<>> THEN <<>>
    ELSE LET front == sort_by_engagement(SubSeq(seq, 1, Len(seq) - 1))
             last == seq[Len(seq)]
             pos == Cardinality({i \in 1..Len(front) :
                                    front[i].engagement >= last.engagement})
         IN  SubSeq(front, 1, pos) \o <<last>> \o SubSeq(front, pos + 1, Len(front))

\* prioritized_images after the loop over the first n posts.
RECURSIVE PrioritizedUpTo(_, _, _)
PrioritizedUpTo(posts, n, max_per_tweet) ==
    IF n = 0 THEN <<>>
    ELSE PrioritizedUpTo(posts, n - 1, max_per_tweet)
            \o SliceTo(sort_by_engagement(TweetImages(posts[n])), max_per_tweet)

prioritize_images(posts, max_total, max_per_tweet) ==
    LET selected_images ==
            SliceTo(sort_by_engagement(
                        PrioritizedUpTo(posts, Len(posts), max_per_tweet)),
                    max_total)
    IN  [k \in 1..Len(selected_images) |->
            [tweet_id |-> selected_images[k].tweet_id,
             url |-> selected_images[k].url]]

ImageUrl(i, j, preview) == [post |-> i, item |-> j, preview |-> preview]

MediaItem(i, j, type) ==
    [type |-> type, url |-> ImageUrl(i, j, FALSE),
     preview_url |-> ImageUrl(i, j, TRUE)]

\* The media types of a post's list; None is the empty list here.
MediaShapes ==
    {<<>>, <<"photo">>, <<"video", "photo">>, <<"photo", "animated_gif", "photo">>}

\* like_count, retweet_count, reply_count: scores 1, 2 and 2.
EngagementCounts == {<<0, 0, 1>>, <<2, 0, 0>>, <<0, 1, 0>>}

ImagePost(i, counts, shape) ==
    [id |-> i, like_count |-> counts[1], retweet_count |-> counts[2],
     reply_count |-> counts[3],
     media |-> [j \in 1..Len(shape) |-> MediaItem(i, j, shape[j])]]

\* The batch of n posts with the given counts and media of each.
ImageBatch(n, counts, shapes) == [i \in 1..n |-> ImagePost(i, counts[i], shapes[i])]

\* (max_total, max_per_tweet): small caps, and the defaults.
ImageCaps == {<<1, 1>>, <<3, 1>>, <<1, 2>>, <<3, 2>>, <<MAX_IMAGES, MAX_IMAGES_PER_TWEET>>}

InitImages ==
    /\ IdleGemini
    /\ IdleSplit
    /\ IdleSend
    /\ IdleClass
    /\ IdlePipe
    /\ IdleParse
    /\ IdleDeliver
    /\ IdleStatus
    /\ IdlePresummary
    /\ IdleDigest
    /\ IdleShould
    /\ \E n \in 0..MaxImagePosts :
          \E c \in [1..n -> EngagementCounts], m \in [1..n -> MediaShapes] :
              im_tweets = ImageBatch(n, c, m)
    /\ \E caps \in ImageCaps : im_max_total = caps[1] /\ im_max_per_tweet = caps[2]
    /\ im_out = <<>>
    /\ im_pc = "call"

DoPrioritizeImages ==
    /\ im_pc = "call"
    /\ im_out' = prioritize_images(im_tweets, im_max_total, im_max_per_tweet)
    /\ im_pc' = "returned"
    /\ UNCHANGED <<im_tweets, im_max_total, im_max_per_tweet>>
    /\ UNCHANGED notImages

NextImages == DoPrioritizeImages

SpecImages == InitImages /\ [][NextImages]_vars

(***************************************************************************)
(* generate_digest (digest.py).  The posts are their ids; a returned text  *)
(* is one of the two templates, named by its function and arguments, or    *)
(* the text the provider gave.                                             *)
(***************************************************************************)
MaxPosts == 6       \* generate_digest is given at most this many posts
MaxImages == 2      \* and at most this many selected images

MIN_TWEETS_FOR_LLM == 5

\* format_empty_digest(list_name, config)
format_empty_digest == [kind |-> "quiet", tweets |-> <<>>, text |-> <<>>]

\* format_sparse_digest(tweets, config)
format_sparse_digest(posts) == [kind |-> "sparse", tweets |-> posts, text |-> <<>>]

\* A text that came from the provider.
ProviderText(text) == [kind |-> "llm", tweets |-> <<>>, text |-> text]

\* fetch_and_encode(url): the inline_data dict of images.py.
InlineData == [inline_data |-> "base64"]

\* The texts a provider's model can produce.
ModelTexts == {<<"o", "k">>, <<SP, "o", "k", NL>>, <<>>}

\* llm_provider.generate(payload, system=..., images=image_data).
\* GeminiProvider: _build_payload runs before the try block and gives each
\* image to base64.b64encode, which raises TypeError for a dict; otherwise
\* the text is returned stripped, and a failure is an LLMError or, for a
\* RequestException other than Timeout, an AttributeError.
\* MockLLMProvider: the response as configured, or the LLMError configured.
generate(provider, image_data) ==
    IF provider = "gemini"
    THEN IF image_data # <<>> THEN {Raises("TypeError")}
         ELSE {Returns(strip(t)) : t \in ModelTexts}
                  \cup {Raises("LLMError"), Raises("AttributeError")}
    ELSE {Returns(t) : t \in ModelTexts} \cup {Raises("LLMError")}

InitDigest ==
    /\ IdleGemini
    /\ IdleImages
    /\ IdleShould
    /\ IdleSplit
    /\ IdleSend
    /\ IdleClass
    /\ IdlePipe
    /\ IdleParse
    /\ IdleDeliver
    /\ IdleStatus
    /\ IdlePresummary
    /\ gd_tweets \in {[i \in 1..n |-> i] : n \in 0..MaxPosts}
    /\ gd_images \in 0..MaxImages
    /\ gd_provider \in {"gemini", "mock"}
    /\ gd_image_data = <<>>
    /\ gd_fetched = 0
    /\ gd_calls = <<>>
    /\ gd_out = <<>>
    /\ gd_pc = "call"

\* Lines 49-57: the two templates, or on to the LLM rung.
DigestEnter ==
    /\ gd_pc = "call"
    /\ IF Len(gd_tweets) = 0
       THEN gd_out' = Returns(format_empty_digest) /\ gd_pc' = "returned"
       ELSE IF Len(gd_tweets) < MIN_TWEETS_FOR_LLM
       THEN gd_out' = Returns(format_sparse_digest(gd_tweets)) /\ gd_pc' = "returned"
       ELSE gd_pc' = "images" /\ UNCHANGED gd_out
    /\ UNCHANGED <<gd_tweets, gd_images, gd_provider, gd_image_data, gd_fetched,
                   gd_calls>>
    /\ UNCHANGED notDigest

\* Lines 62-69: one image is fetched and encoded, or skipped when that fails.
DigestFetchImage ==
    /\ gd_pc = "images"
    /\ gd_fetched < gd_images
    /\ \E fetched \in BOOLEAN :
          gd_image_data' = IF fetched THEN Append(gd_image_data, InlineData)
                           ELSE gd_image_data
    /\ gd_fetched' = gd_fetched + 1
    /\ UNCHANGED <<gd_tweets, gd_images, gd_provider, gd_calls, gd_out, gd_pc>>
    /\ UNCHANGED notDigest

\* Lines 71-76: the generate call; its text stripped, the sparse template on
\* LLMError, and any other exception goes on to the caller.
DigestGenerate ==
    /\ gd_pc = "images"
    /\ gd_fetched = gd_images
    /\ \E response \in generate(gd_provider, gd_image_data) :
          /\ gd_calls' = Append(gd_calls, [images |-> Len(gd_image_data),
                                           response |-> response])
          /\ IF response.exc = "none"
             THEN /\ gd_out' = Returns(ProviderText(strip(response.val)))
                  /\ gd_pc' = "returned"
             ELSE IF response.exc = "LLMError"
             THEN /\ gd_out' = Returns(format_sparse_digest(gd_tweets))
                  /\ gd_pc' = "returned"
             ELSE /\ gd_out' = response
                  /\ gd_pc' = "raised"
    /\ UNCHANGED <<gd_tweets, gd_images, gd_provider, gd_image_data, gd_fetched>>
    /\ UNCHANGED notDigest

NextDigest == DigestEnter \/ DigestFetchImage \/ DigestGenerate

SpecDigest == InitDigest /\ [][NextDigest]_vars

(***************************************************************************)
(* GeminiProvider.generate (llm/gemini.py).  The HTTP layer is what        *)
(* requests.post does: it raises requests.Timeout or another               *)
(* RequestException, or it returns a response with a status code and a     *)
(* body.  A body is JSON or not; a JSON body is its list of candidates,    *)
(* a candidate is the list of parts of its content, and a part has a text  *)
(* or has none.  A missing "candidates" or "parts" key reads as the empty  *)
(* list, as with dict.get.                                                 *)
(***************************************************************************)
MaxResponseParts == 2   \* a candidate has at most this many parts

\* LLMError(code, message)
LLMError(code) == [exc |-> "LLMError", code |-> code]

LLM_API_AUTH == "LLM_API_AUTH"
LLM_RATE_LIMITED == "LLM_RATE_LIMITED"
LLM_TIMEOUT == "LLM_TIMEOUT"
LLM_EMPTY_RESPONSE == "LLM_EMPTY_RESPONSE"
LLM_INVALID_RESPONSE == "LLM_INVALID_RESPONSE"
LLM_QUOTA_EXCEEDED == "LLM_QUOTA_EXCEEDED"

\* A part of a candidate's content: with a "text" key, or without one.
TextPart(t) == [has_text |-> TRUE, text |-> t]
OtherPart == [has_text |-> FALSE, text |-> <<>>]
ResponseParts == {TextPart(t) : t \in ModelTexts} \cup {OtherPart}

\* The lists of parts of one candidate.
PartLists == UNION {[1..n -> ResponseParts] : n \in 0..MaxResponseParts}

\* What response.json() gives: a ValueError, or the candidates.
NotJson == [json |-> FALSE, candidates |-> <<>>]
Json(candidates) == [json |-> TRUE, candidates |-> candidates]
ResponseBodies == {NotJson, Json(<<>>)} \cup {Json(<<ps>>) : ps \in PartLists}

StatusCodes == {200, 401, 403, 429, 500}

\* What requests.post can do.
Timeout == [kind |-> "Timeout", status_code |-> 0, body |-> NotJson]
ConnectionError == [kind |-> "ConnectionError", status_code |-> 0, body |-> NotJson]
Response(code, body) == [kind |-> "response", status_code |-> code, body |-> body]
Replies ==
    {Timeout, ConnectionError}
        \cup {Response(c, b) : c \in StatusCodes, b \in ResponseBodies}

\* "".join(text_parts) for the parts that have a text.
RECURSIVE JoinTextParts(_)
JoinTextParts(ps) ==
    IF ps = <<>> THEN <<>>
    ELSE (IF Head(ps).has_text THEN Head(ps).text ELSE <<>>) \o JoinTextParts(Tail(ps))

\* _parse_response(response_data): its own LLMError is raised again by
\* the except LLMError clause.
_parse_response(candidates) ==
    IF candidates = <<>> THEN LLMError(LLM_EMPTY_RESPONSE)
    ELSE LET content_parts == candidates[1]
         IN  IF content_parts = <<>> THEN LLMError(LLM_EMPTY_RESPONSE)
             ELSE IF \A i \in 1..Len(content_parts) : ~content_parts[i].has_text
             THEN LLMError(LLM_EMPTY_RESPONSE)
             ELSE Returns(strip(JoinTextParts(content_parts)))

\* The body of the try block of generate, lines 61-73.
GenerateTry(reply) ==
    IF reply.kind = "Timeout" THEN Raises("Timeout")
    ELSE IF reply.kind = "ConnectionError" THEN Raises("RequestException")
    ELSE IF reply.status_code = 401 THEN LLMError(LLM_API_AUTH)
    ELSE IF reply.status_code = 429 THEN LLMError(LLM_RATE_LIMITED)
    ELSE IF reply.status_code = 403 THEN LLMError(LLM_QUOTA_EXCEEDED)
    ELSE IF reply.status_code # 200 THEN LLMError(LLM_INVALID_RESPONSE)
    ELSE IF ~reply.body.json THEN Raises("ValueError")
    ELSE _parse_response(reply.body.candidates)

\* The except clauses of generate, lines 75-80, in their order: Timeout,
\* RequestException, Exception.  ErrorCode has no LLM_NETWORK_ERROR, so
\* the second handler raises AttributeError while it builds its LLMError;
\* LLMError is an Exception, so the third handler catches the LLMError
\* raised inside the try block as well.
GenerateExcept(outcome) ==
    IF outcome.exc = "none" THEN outcome
    ELSE IF outcome.exc = "Timeout" THEN LLMError(LLM_TIMEOUT)
    ELSE IF outcome.exc = "RequestException" THEN Raises("AttributeError")
    ELSE LLMError(LLM_INVALID_RESPONSE)

\* _build_payload(prompt, system, images): base64.b64encode takes bytes.
_build_payload(images) ==
    IF images = "dict" THEN Raises("TypeError") ELSE Returns(images)

\* GeminiProvider.generate(prompt, system, images) when requests.post
\* does reply; the payload is built before the try block.
gemini_generate(images, reply) ==
    IF _build_payload(images).exc # "none" THEN _build_payload(images)
    ELSE GenerateExcept(GenerateTry(reply))

InitGemini ==
    /\ IdleImages
    /\ IdleShould
    /\ IdleSplit
    /\ IdleSend
    /\ IdleClass
    /\ IdlePipe
    /\ IdleParse
    /\ IdleDeliver
    /\ IdleStatus
    /\ IdlePresummary
    /\ IdleDigest
    /\ gm_images \in {"none", "bytes", "dict"}
    /\ gm_reply \in Replies
    /\ gm_out = <<>>
    /\ gm_pc = "call"

DoGenerate ==
    /\ gm_pc = "call"
    /\ gm_out' = gemini_generate(gm_images, gm_reply)
    /\ gm_pc' = "returned"
    /\ UNCHANGED <<gm_images, gm_reply>>
    /\ UNCHANGED notGemini

NextGemini == DoGenerate

SpecGemini == InitGemini /\ [][NextGemini]_vars

(***************************************************************************)
(* Claims about split_digest.                                              *)
(***************************************************************************)
IsPrefix(p, s) == Len(p) <= Len(s) /\ SubSeq(s, 1, Len(p)) = p

IsSuffix(p, s) == Len(p) <= Len(s) /\ SubSeq(s, Len(s) - Len(p) + 1, Len(s)) = p

\* A returned part without its "(i/total)" indicator.
WithoutIndicator(part, i, total) ==
    IF IsSuffix(PartIndicator(i, total), part)
    THEN SubSeq(part, 1, Len(part) - Len(PartIndicator(i, total)))
    ELSE part

WithoutIndicators(res) ==
    IF Len(res) > 1
    THEN [i \in 1..Len(res) |-> WithoutIndicator(res[i], i, Len(res))]
    ELSE res

\* text is ps[1], whitespace, ps[2], whitespace, ... in this order, and nothing else.
RECURSIVE Rejoins(_, _)
Rejoins(ps, text) ==
    IF ps = <<>> THEN text = <<>>
    ELSE /\ IsPrefix(Head(ps), text)
         /\ Rejoins(Tail(ps), lstrip(SliceFrom(text, Len(Head(ps)))))

RECURSIVE TotalLen(_)
TotalLen(ps) == IF ps = <<>> THEN 0 ELSE Len(Head(ps)) + TotalLen(Tail(ps))

\* C1: every part split_digest returns, its "(i/total)" indicator included, is
\* at most max_length characters long.
C1_PartsWithinMaxLength ==
    split_pc = "returned" =>
        \A i \in 1..Len(result) : Len(result[i]) <= max_length

\* C2: a text of at most max_length characters is returned as the single part
\* [text]; a longer one is returned as parts that, their indicators removed and
\* put end to end, are the text with only whitespace removed at the cuts.
C2_ContentPreserved ==
    split_pc = "returned" =>
        IF Len(digest) <= max_length
        THEN result = <<digest>>
        ELSE Rejoins(WithoutIndicators(result), digest)

\* C2 witness: a text cut into three or more parts, with whitespace removed at a cut.
C2_Witness ==
    /\ split_pc = "returned"
    /\ Len(result) >= 3
    /\ TotalLen(WithoutIndicators(result)) < Len(digest)

\* C3: every iteration of the split loop strictly shortens the remaining text
\* (so the loop ends and split_digest returns).
C3_IterationShortens ==
    [][SplitIteration => Len(remaining') < Len(remaining)]_vars

\* Where the marker starts within the first limit characters of text, the
\* whole marker lying within them.
MarkerStarts(text, marker, limit) ==
    {i \in 0..(limit - Len(marker)) : SubSeq(text, i + 1, i + Len(marker)) = marker}

\* The cut by priority: the right-most start, among those in starts, of the
\* first marker that has one; the hard cut if no marker has one.
CutByPriority(markers, starts(_), limit) ==
    LET found == {m \in 1..Len(markers) : starts(markers[m]) # {}}
    IN  IF found = {} THEN limit - IndicatorRoom
        ELSE MaxOf(starts(markers[MinOf(found)]))

C17_PartsFitProvider ==
    dl_pc = "sending" =>
        /\ dl_parts = split_digest(dl_digest, max_message_length(dl_provider), <<>>)
        /\ \A k \in 1..Len(sends) :
              Len(dl_parts[sends[k].part + 1]) <= max_message_length(dl_provider)

(***************************************************************************)
(* Claims about run_pipeline.                                              *)
(***************************************************************************)
Distance(a, b) == IF a >= b THEN a - b ELSE b - a

\* The invocation passed the idempotency check and its fetch returned.
Fetched(p) == "fetch" \in runs[p].effects

\* C4: two overlapping invocations of run_pipeline for the same list, neither
\* with force set, never both pass the idempotency check and fetch within one
\* idempotency window: if both fetched, their fetches are more than
\* idempotency_window_minutes apart.
C4_OneRunPerWindow ==
    \A p \in Procs : \A q \in Procs \ {p} :
        (~runs[p].force /\ ~runs[q].force /\ Fetched(p) /\ Fetched(q))
            => Distance(runs[p].fetched_at, runs[q].fetched_at) > window

(***************************************************************************)
(* Claims about parse_tweets.                                              *)
(***************************************************************************)
\* The key is there with a value other than null.
Present(d, key) == key \in DOMAIN d.v /\ d.v[key].t # "null"

\* A media item that is well-formed: a dict with finite numbers.
WellFormedMedia(m) == m.t = "dict" /\ \A k \in DOMAIN m.v : m.v[k].t # "inf"

\* An entry that is well-formed: a dict with id, text and author.username,
\* whose media, if any, is a list of well-formed items and whose quoted post,
\* if any, is well-formed.
RECURSIVE WellFormed(_)
WellFormed(e) ==
    /\ e.t = "dict"
    /\ Present(e, "id")
    /\ Present(e, "text")
    /\ Present(e, "author")
    /\ e.v["author"].t = "dict"
    /\ "username" \in DOMAIN e.v["author"].v
    /\ \A k \in DOMAIN e.v : e.v[k].t # "inf"
    /\ Present(e, "media") =>
          /\ e.v["media"].t = "list"
          /\ \A i \in 1..Len(e.v["media"].v) : WellFormedMedia(e.v["media"].v[i])
    /\ Present(e, "quotedTweet") => WellFormed(e.v["quotedTweet"])

\* The ids of the well-formed entries, in input order.
RECURSIVE WellFormedIds(_)
WellFormedIds(data) ==
    IF data = <<>> THEN <<>>
    ELSE (IF WellFormed(Head(data)) THEN <<safe_str(Head(data).v["id"], <<>>)>> ELSE <<>>)
         \o WellFormedIds(Tail(data))

\* C11: for any JSON array, parse_tweets never raises, drops every malformed
\* entry and returns every well-formed entry, in input order.
C11_ParseNeverRaises ==
    parse_pc = "returned" =>
        /\ parse_out.exc = "none"
        /\ [i \in 1..Len(parse_out.val) |-> parse_out.val[i].id] = WellFormedIds(json_data)

\* The entry carries no conversation id.
NoConversationId(e) == ~Present(e, "conversationId")

\* C12: every post returned by parse_tweets has a non-empty conversation_id,
\* and the conversation_id is the post's own id when the entry carries no
\* conversation id.
C12_ConversationIdNeverEmpty ==
    (parse_pc = "returned" /\ parse_out.exc = "none") =>
        \A i \in 1..Len(parse_out.val) :
            /\ parse_out.val[i].conversation_id # <<>>
            /\ \A k \in 1..Len(json_data) :
                  (/\ _parse_single_tweet(json_data[k]) = Returns(parse_out.val[i])
                   /\ NoConversationId(json_data[k]))
                      => parse_out.val[i].conversation_id = parse_out.val[i].id

(***************************************************************************)
(* Claims about send_digest.                                               *)
(***************************************************************************)
\* The positions of the log at which part p was sent.
SendsOf(p) == {k \in 1..Len(sends) : sends[k].part = p}

Delivered(p) == \E k \in SendsOf(p) : sends[k].ok

FailuresOf(p) == Cardinality({k \in SendsOf(p) : ~sends[k].ok})

\* C5: for max_retries >= 1 the parts are sent in list order, each until its
\* first success or until max_retries attempts have failed and never again after
\* a success; a part that failed every attempt does not stop the later parts;
\* the result is TRUE iff every part has a successful send.
C5_SendDigestRetries ==
    max_retries >= 1 =>
        /\ \A k \in 1..(Len(sends) - 1) : sends[k].part <= sends[k + 1].part
        /\ \A k \in 1..Len(sends) :
              sends[k].ok => \A j \in (k + 1)..Len(sends) : sends[j].part # sends[k].part
        /\ \A p \in 0..(n_parts - 1) : Cardinality(SendsOf(p)) <= max_retries
        /\ send_pc = "returned" =>
              /\ \A p \in 0..(n_parts - 1) : Delivered(p) \/ FailuresOf(p) = max_retries
              /\ send_result = (\A p \in 0..(n_parts - 1) : Delivered(p))

\* C5 witness: the first part failed all of its two or more attempts, and a later
\* part was still delivered, after a retry.
C5_Witness ==
    /\ send_pc = "returned"
    /\ max_retries >= 2
    /\ n_parts >= 2
    /\ ~Delivered(0)
    /\ FailuresOf(0) = max_retries
    /\ Delivered(1)
    /\ FailuresOf(1) >= 1
    /\ send_result = FALSE

(***************************************************************************)
(* Claims about the classification engine.                                 *)
(***************************************************************************)
Range(seq) == {seq[i] : i \in 1..Len(seq)}

HasId(seq, id) == \E i \in 1..Len(seq) : seq[i].id = id

Quotes(tweet, id) == tweet.quoted_tweet # NoTweet /\ tweet.quoted_tweet[1].id = id

\* Whether some post of seq quotes the post with this id.
IsQuotedIn(seq, id) == \E i \in 1..Len(seq) : Quotes(seq[i], id)

PlacesInThreads(threads, tweet) ==
    {<<g, j>> \in (1..Len(threads)) \X (1..MaxTweets) :
        j <= Len(threads[g].tweets) /\ threads[g].tweets[j] = tweet}

\* C7: reconstruct_threads puts every post of the batch in exactly one group,
\* the group keyed by its conversation_id, and adds none; the group sizes
\* (get_thread_stats total_tweets) sum to the number of posts.
C7_ThreadsPartitionBatch ==
    /\ cl_op = "reconstruct_threads" =>
          /\ \A i \in 1..Len(tweets) :
                /\ Cardinality(PlacesInThreads(cl_out, tweets[i])) = 1
                /\ \A pl \in PlacesInThreads(cl_out, tweets[i]) :
                      cl_out[pl[1]].conversation_id = tweets[i].conversation_id
          /\ \A g, h \in 1..Len(cl_out) :
                cl_out[g].conversation_id = cl_out[h].conversation_id => g = h
          /\ \A g \in 1..Len(cl_out) : Range(cl_out[g].tweets) \subseteq Range(tweets)
          /\ SumLen(cl_out) = Len(tweets)
    /\ cl_op = "get_thread_stats" => cl_out.total_tweets = Len(tweets)

\* C7 witness: three posts in two groups, one group reordered by date.
C7_Witness ==
    /\ cl_op = "reconstruct_threads"
    /\ Len(tweets) = 3
    /\ Len(cl_out) = 2
    /\ \E g \in 1..2 :
          /\ Len(cl_out[g].tweets) = 2
          /\ cl_out[g].tweets[1].id > cl_out[g].tweets[2].id

\* C8: classify_thread_completeness is "complete" for an empty or single-post
\* thread; otherwise "partial_no_root" if no member has id = conversation_id;
\* otherwise "partial_with_root" if some member replies to an id that no member
\* of the thread has; otherwise "complete".
C8_ThreadCompleteness ==
    cl_op = "classify_thread_completeness" =>
        cl_out =
            IF Len(tweets) <= 1 THEN "complete"
            ELSE IF \A t \in Range(tweets) : t.id # t.conversation_id
                 THEN "partial_no_root"
            ELSE IF \E t \in Range(tweets) :
                        /\ t.in_reply_to_status_id # NoId
                        /\ ~HasId(tweets, t.in_reply_to_status_id)
                 THEN "partial_with_root"
            ELSE "complete"

\* C8 witness: a thread whose root comes second and in which a reply's parent is
\* missing.
C8_Witness ==
    /\ cl_op = "classify_thread_completeness"
    /\ Len(tweets) >= 2
    /\ tweets[1].id # tweets[1].conversation_id
    /\ tweets[2].id = tweets[2].conversation_id
    /\ tweets[1].in_reply_to_status_id = OutsideId
    /\ cl_out = "partial_with_root"

\* C9: classify_tweet returns exactly one variant: retweet if the text starts
\* with "RT @", else quote if a quoted post is present, else reply if
\* in_reply_to is present, else standalone; the retweet check wins over a quoted
\* post and a reply parent.
C9_ClassifyPrecedence ==
    cl_op = "classify_tweet" =>
        LET t == tweets[cl_arg]
            rt == Len(t.text) >= 4 /\ t.text[1] = "R" /\ t.text[2] = "T"
                    /\ t.text[3] = " " /\ t.text[4] = "@"
        IN  /\ cl_out \in {"retweet", "quote", "reply", "standalone"}
            /\ cl_out = "retweet" <=> rt
            /\ cl_out = "quote" <=> (~rt /\ t.quoted_tweet # NoTweet)
            /\ cl_out = "reply" <=>
                  (~rt /\ t.quoted_tweet = NoTweet /\ t.in_reply_to_status_id # NoId)
            /\ cl_out = "standalone" <=>
                  (~rt /\ t.quoted_tweet = NoTweet /\ t.in_reply_to_status_id = NoId)

\* C9 witness: a post with the retweet prefix, a quoted post and a reply parent
\* is a retweet.
C9_Witness ==
    /\ cl_op = "classify_tweet"
    /\ tweets[cl_arg].quoted_tweet # NoTweet
    /\ tweets[cl_arg].in_reply_to_status_id # NoId
    /\ cl_out = "retweet"

\* How often a post occurs in a sequence of posts.
Occurrences(seq, tweet) == Cardinality({i \in 1..Len(seq) : seq[i] = tweet})

\* The members of the batch that share this post's conversation.
Conversation(seq, tweet) ==
    {t \in Range(seq) : t.conversation_id = tweet.conversation_id}

BucketOf(kind) ==
    CASE kind = "standalone" -> "standalone"
      [] kind = "quote" -> "quotes"
      [] kind = "reply" -> "replies"
      [] kind = "retweet" -> "retweets"

\* C10: categorize_tweets places every post exactly once: a conversation with two
\* or more members in the batch is one entry of "threads" holding all its
\* members, and a post alone in its conversation is in the one bucket that
\* classify_tweet names; so a reply is in "replies" only when it is alone.
C10_CategorizePlacesOnce ==
    cl_op = "categorize_tweets" =>
        LET inThreads(t) ==
                {g \in 1..Len(cl_out.threads) : t \in Range(cl_out.threads[g])}
            buckets == {"standalone", "quotes", "replies", "retweets"}
            inBuckets(t) == {b \in buckets : t \in Range(cl_out[b])}
        IN  /\ \A t \in Range(tweets) :
                  IF Cardinality(Conversation(tweets, t)) >= 2
                  THEN /\ inBuckets(t) = {}
                       /\ Cardinality(inThreads(t)) = 1
                       /\ \A g \in inThreads(t) :
                             /\ Range(cl_out.threads[g]) = Conversation(tweets, t)
                             /\ Len(cl_out.threads[g]) =
                                    Cardinality(Conversation(tweets, t))
                  ELSE /\ inThreads(t) = {}
                       /\ inBuckets(t) = {BucketOf(classify_tweet(t))}
                       /\ Occurrences(cl_out[BucketOf(classify_tweet(t))], t) = 1
            /\ \A b \in buckets : Range(cl_out[b]) \subseteq Range(tweets)
            /\ \A g \in 1..Len(cl_out.threads) :
                  Range(cl_out.threads[g]) \subseteq Range(tweets)

\* C10 witness: a reply inside a two-post conversation is a thread member while a
\* reply alone in its conversation is in "replies".
C10_Witness ==
    /\ cl_op = "categorize_tweets"
    /\ Len(tweets) = 3
    /\ Len(cl_out.threads) = 1
    /\ Len(cl_out.replies) = 1
    /\ \E t \in Range(cl_out.threads[1]) : classify_tweet(t) = "reply"

\* The string is one that parse_twitter_date cannot read.
ParseFails(date_str) ==
    date_str \notin DOMAIN KnownDates \cup DOMAIN NaiveDates

\* C13: if the created_at of any member of a conversation group fails to
\* parse, reconstruct_threads returns that group in its original relative
\* input order.
C13_BadDateKeepsInputOrder ==
    cl_op = "reconstruct_threads" =>
        \A g \in 1..Len(cl_out) :
            (\E i \in 1..Len(cl_out[g].tweets) : ParseFails(cl_out[g].tweets[i].created_at))
                => cl_out[g].tweets = ThreadMembers(tweets, cl_out[g].conversation_id)

\* C14: within every group returned by reconstruct_threads the posts are in
\* non-decreasing order of their parsed created_at whenever all timestamps
\* of the group parse.
C14_GroupsSortedByDate ==
    cl_op = "reconstruct_threads" =>
        \A g \in 1..Len(cl_out) :
            (\A i \in 1..Len(cl_out[g].tweets) : ~ParseFails(cl_out[g].tweets[i].created_at))
                => \A i, j \in 1..Len(cl_out[g].tweets) :
                      i < j => parse_twitter_date(cl_out[g].tweets[i].created_at).at
                                  <= parse_twitter_date(cl_out[g].tweets[j].created_at).at

\* The posts of seq that are not standalone entries quoted in batch.
RECURSIVE WithoutQuotedStandalone(_, _)
WithoutQuotedStandalone(batch, seq) ==
    IF seq = <<>> THEN <<>>
    ELSE (IF classify_tweet(Head(seq)) = "standalone" /\ IsQuotedIn(batch, Head(seq).id)
          THEN <<>> ELSE <<Head(seq)>>)
         \o WithoutQuotedStandalone(batch, Tail(seq))

\* C15: dedupe_quotes removes exactly the standalone entries (no quoted post,
\* no reply parent, not a retweet) whose id some post of the batch quotes;
\* every other post is kept, and the kept posts stay in input order.
C15_OnlyQuotedStandaloneRemoved ==
    cl_op = "dedupe_quotes" => cl_out = WithoutQuotedStandalone(tweets, tweets)


(***************************************************************************)
(* Claims about the status file.                                           *)
(***************************************************************************)

\* Field k as update_status call p wrote it has since been written again
\* by another call for the same list.
WrittenAgain(p, k) ==
    \E q \in Callers \ {p} :
        /\ calls[q].op = "update"
        /\ calls[q].list = calls[p].list
        /\ k \in DOMAIN calls[q].fields
        /\ calls[q].pc \in {"unlock", "returned"}

\* C18: under every interleaving of concurrent update_status and
\* load_status calls on one status file, the file missing at the start
\* included, no load_status finds the file empty or corrupt, and the file
\* keeps the list entry and every field of every update_status call that
\* has returned (unless another call wrote that field of that list too).
C18_NoWriteLostNoCorruptRead ==
    /\ \A p \in DOMAIN calls : calls[p].out.kind # "STATUS_FILE_CORRUPT"
    /\ \A p \in DOMAIN calls :
          (calls[p].op = "update" /\ calls[p].pc = "returned") =>
              /\ file.kind = "json"
              /\ calls[p].list \in DOMAIN file.lists
              /\ \A k \in DOMAIN calls[p].fields :
                    \/ file.lists[calls[p].list][k] = calls[p].fields[k]
                    \/ WrittenAgain(p, k)


(***************************************************************************)
(* Claims about presummary_tweets.                                         *)
(***************************************************************************)

\* The positions of results that hold the posts of entry k of threads.
ResultsOf(k) ==
    {r \in 1..Len(ps_results) :
        \E i \in 1..Len(ps_threads[k].tweets) :
            ps_results[r].tweet = ps_threads[k].tweets[i]}

\* The generate calls made for entry k of threads.
CallsFor(k) == {c \in 1..Len(ps_calls) : ps_calls[c].unit = k}

\* C19: when the generate call for one unit (a thread of several posts or a
\* single post) fails, no exception leaves presummary_tweets, every post of
\* that unit gets summary None, and the loop goes on: once the function has
\* returned, every post of the batch has its pair in results, every unit
\* that needs a summary had exactly one generate call, and a unit whose
\* call returned text carries that text, stripped, on each of its posts.
C19_FailedUnitGetsNone ==
    /\ ps_pc # "raised"
    /\ \A c \in 1..Len(ps_calls) :
          LET mine == ResultsOf(ps_calls[c].unit)
              response == ps_calls[c].response
          IN  /\ Cardinality(mine) = Len(ps_threads[ps_calls[c].unit].tweets)
              /\ response.exc # "none" =>
                    \A r \in mine : ps_results[r].summary = NoSummary
              /\ (response.exc = "none" /\ response.val # <<>>) =>
                    \A r \in mine :
                        ps_results[r].summary = Summary(strip(response.val))
    /\ (ps_pc = "returned" /\ ps_config.enabled) =>
          /\ Len(ps_results) = Len(ps_tweets)
          /\ \A k \in 1..Len(ps_threads) :
                Cardinality(CallsFor(k)) =
                    IF NeedsSummary(ps_threads[k].tweets, ps_config) THEN 1 ELSE 0

\* A batch was handled in which the call for a thread of several posts
\* failed and a unit after it was summarized.
C19_Witness ==
    /\ ps_pc = "returned"
    /\ \E c \in 1..Len(ps_calls) :
          /\ ps_calls[c].response.exc = "LLMError"
          /\ Len(ps_threads[ps_calls[c].unit].tweets) >= 2
          /\ \E d \in 1..Len(ps_calls) :
                /\ d > c
                /\ ps_calls[d].response.exc = "none"
                /\ \E r \in ResultsOf(ps_calls[d].unit) :
                      ps_results[r].summary = Summary(<<"o", "k">>)


(***************************************************************************)
(* Claims about generate_digest.                                           *)
(***************************************************************************)

\* C20: generate_digest ends in one of the rungs of its ladder and never
\* raises: without posts the quiet-period template and no generate call;
\* with 1 to 4 posts the sparse template and no generate call; with 5 or
\* more posts exactly one generate call, whose stripped text is returned,
\* or, when that call failed, the sparse template of the same posts.
C20_DigestLadder ==
    /\ gd_pc # "raised"
    /\ gd_pc = "returned" =>
          /\ Len(gd_tweets) = 0 =>
                gd_calls = <<>> /\ gd_out = Returns(format_empty_digest)
          /\ Len(gd_tweets) \in 1..(MIN_TWEETS_FOR_LLM - 1) =>
                /\ gd_calls = <<>>
                /\ gd_out = Returns(format_sparse_digest(gd_tweets))
          /\ Len(gd_tweets) >= MIN_TWEETS_FOR_LLM =>
                /\ Len(gd_calls) = 1
                /\ gd_out = IF gd_calls[1].response.exc = "none"
                            THEN Returns(ProviderText(strip(gd_calls[1].response.val)))
                            ELSE Returns(format_sparse_digest(gd_tweets))

(***************************************************************************)
(* Claims about should_presummary.                                         *)
(***************************************************************************)

\* The threshold in force: the configured one, or the default when unset.
Threshold(key, default) ==
    IF key \in DOMAIN sp_config THEN sp_config[key] ELSE default

\* The single-post rule as the claims state it, for post t.
SinglePostRule(t) ==
    \/ t.text_len > Threshold("long_tweet_chars", 500)
    \/ t.quoted_len # NoQuote /\ t.quoted_len > Threshold("long_quote_chars", 300)
    \/ t.text_len + (IF t.quoted_len = NoQuote THEN 0 ELSE t.quoted_len)
          > Threshold("long_combined_chars", 600)

\* C21: for a single post should_presummary is true iff len(text) exceeds
\* long_tweet_chars, or a quoted post is there and its text exceeds
\* long_quote_chars, or both lengths together exceed long_combined_chars;
\* each comparison is strict and unset thresholds are 500, 300 and 600.
C21_SinglePostThresholds ==
    (sp_pc = "returned" /\ ~sp_content.is_list) =>
        sp_out = SinglePostRule(sp_content.items[1])

\* A post whose text is exactly at the default threshold was judged, and
\* one a character longer.
C21_Witness ==
    /\ sp_pc = "returned"
    /\ ~sp_content.is_list
    /\ sp_config = [k \in {} |-> 0]
    /\ sp_content.items[1].quoted_len = NoQuote
    /\ \/ sp_content.items[1].text_len = 500 /\ ~sp_out
       \/ sp_content.items[1].text_len = 501 /\ sp_out

\* C22: for a list should_presummary is false when the list is empty, is
\* the single-post rule of the member when there is one member, and with
\* two or more members is true iff their number is at least
\* thread_min_tweets (2 when unset).
C22_ListRule ==
    (sp_pc = "returned" /\ sp_content.is_list) =>
        LET n == Len(sp_content.items)
        IN  /\ n = 0 => ~sp_out
            /\ n = 1 => sp_out = SinglePostRule(sp_content.items[1])
            /\ n >= 2 => sp_out = (n >= Threshold("thread_min_tweets", 2))

\* C23: presummary_tweets returns each input post exactly once.  Enabled,
\* it makes one generate call for each thread of several posts that has at
\* least thread_min_tweets members and one for each single post that meets
\* the single-post rule, no other call, and all posts of a thread carry the
\* same summary.  Disabled, it makes no call and every summary is None.
C23_OneCallPerUnit ==
    ps_pc = "returned" =>
        /\ Len(ps_results) = Len(ps_tweets)
        /\ \A i \in 1..Len(ps_tweets) :
              Cardinality({r \in 1..Len(ps_results) :
                              ps_results[r].tweet = ps_tweets[i]}) = 1
        /\ ps_config.enabled =>
              /\ \A k \in 1..Len(ps_threads) :
                    LET thread == ps_threads[k].tweets
                        due == IF Len(thread) >= 2
                               THEN Len(thread) >= ps_config.thread_min_tweets
                               ELSE \/ thread[1].text_len > 500
                                    \/ /\ thread[1].quoted_len # NoQuote
                                       /\ thread[1].quoted_len > 300
                                    \/ calculate_content_length(thread[1]) > 600
                    IN  /\ Cardinality(CallsFor(k)) = IF due THEN 1 ELSE 0
                        /\ \A r, q \in ResultsOf(k) :
                              ps_results[r].summary = ps_results[q].summary
              /\ \A c \in 1..Len(ps_calls) : ps_calls[c].unit \in 1..Len(ps_threads)
        /\ ~ps_config.enabled =>
              /\ ps_calls = <<>>
              /\ \A r \in 1..Len(ps_results) : ps_results[r].summary = NoSummary

\* A batch with a thread of several posts and a single long post was
\* handled: one call each, and the thread's posts share the text returned.
C23_Witness ==
    /\ ps_pc = "returned"
    /\ ps_config.enabled
    /\ Len(ps_calls) = 2
    /\ \E k \in 1..Len(ps_threads) :
          /\ Len(ps_threads[k].tweets) >= 2
          /\ \A r \in ResultsOf(k) : ps_results[r].summary = Summary(<<"o", "k">>)
    /\ \E k \in 1..Len(ps_threads) :
          /\ Len(ps_threads[k].tweets) = 1
          /\ CallsFor(k) # {}

(***************************************************************************)
(* Claims about prioritize_images.                                         *)
(***************************************************************************)

\* The engagement score of the post that owns entry k of the output.
OwnerScore(k) ==
    LET t == im_tweets[im_out[k].tweet_id]
    IN  t.like_count + 2 * t.retweet_count + t.reply_count

\* C24: prioritize_images returns at most max_total entries, at most
\* max_per_tweet entries of any one post, in order of non-increasing
\* engagement score (likes + 2 x retweets + replies) of the owning post,
\* and entries of equal score stay in input order: by post, then by place
\* in the post's media list.
C24_ImagesCappedAndOrdered ==
    im_pc = "returned" =>
        /\ Len(im_out) <= im_max_total
        /\ \A i \in 1..Len(im_tweets) :
              Cardinality({k \in 1..Len(im_out) : im_out[k].tweet_id = i})
                  <= im_max_per_tweet
        /\ \A k \in 1..(Len(im_out) - 1) :
              \/ OwnerScore(k) > OwnerScore(k + 1)
              \/ /\ OwnerScore(k) = OwnerScore(k + 1)
                 /\ \/ im_out[k].url.post < im_out[k + 1].url.post
                    \/ /\ im_out[k].url.post = im_out[k + 1].url.post
                       /\ im_out[k].url.item < im_out[k + 1].url.item

\* Images of posts with equal scores and of a post with a higher score
\* were returned, the per-post cap having cut a post's list.
C24_Witness ==
    /\ im_pc = "returned"
    /\ Len(im_out) = im_max_total
    /\ \E k \in 1..(Len(im_out) - 1) :
          /\ OwnerScore(k) = OwnerScore(k + 1)
          /\ im_out[k].tweet_id # im_out[k + 1].tweet_id
    /\ \E k \in 1..(Len(im_out) - 1) : OwnerScore(k) > OwnerScore(k + 1)
    /\ \E i \in 1..Len(im_tweets) :
          Len(TweetImages(im_tweets[i])) > im_max_per_tweet

(***************************************************************************)
(* Claims about the effects of run_pipeline on the status file.            *)
(***************************************************************************)
\* The list has a last_run that is at most idempotency_window_minutes old.
RecentLastRun ==
    /\ status # <<>>
    /\ status[1].last_run.kind = "time"
    /\ now - status[1].last_run.at <= window

\* The list has no entry, no last_run, or a last_run that cannot be parsed.
NoUsableLastRun == status = <<>> \/ status[1].last_run.kind \in {"none", "invalid"}

\* The step in which invocation p makes its idempotency check.
Checks(p) == runs[p].pc = "start" /\ runs'[p].pc # "start"

PostTimes == 0..MaxTime

\* Invocation p fetched, delivered its digest or printed it in a dry run,
\* and returned True.
Succeeded(p) ==
    /\ runs[p].pc = "returned"
    /\ runs[p].ret = "True"
    /\ Fetched(p)
    /\ ~runs[p].preview
    /\ runs[p].dry_run \/ runs[p].delivery = "ok"

\* The step in which invocation p computes its window and fetches.
Fetches(p) == runs[p].pc = "fetch" /\ runs'[p].pc = "mark"

\* C26: across consecutive successful runs of the same list the fetch
\* windows leave no gap: when a run that started after a successful run
\* was over fetches, every post created after that run's fetch and up to
\* this fetch passes the time filter of this run's window.
C26_NoGapBetweenWindows ==
    [][(Fetches("second") /\ runs["second"].alone /\ Succeeded("first")) =>
          \A c \in PostTimes :
              (runs["first"].fetched_at < c /\ c <= now) =>
                  c \in _filter_tweets_by_time({c}, runs'["second"].since)]_vars

\* The stored last_success of the list; None while the list has no entry.
StoredSuccess(st) == IF st = <<>> THEN NoStamp ELSE st[1].last_success

\* The step in which invocation p hands a digest to _deliver_digest, or
\* prints it in a dry run, and records the outcome.
Delivers(p) == runs[p].pc \in {"empty", "deliver"} /\ runs'[p].pc = "returned"

\* C27: run_pipeline advances the list's last_success only after the
\* digest was delivered successfully or in dry-run mode; whenever delivery
\* fails, the quiet-period digest of an empty fetch included, last_success
\* is left as it was and error_code is set.
C27_SuccessOnlyAfterDelivery ==
    [][/\ StoredSuccess(status') # StoredSuccess(status) =>
             \E p \in Procs :
                 /\ Delivers(p)
                 /\ runs[p].dry_run \/ runs'[p].delivery = "ok"
       /\ \A p \in Procs :
             (Delivers(p) /\ runs'[p].delivery = "failed") =>
                 /\ StoredSuccess(status') = StoredSuccess(status)
                 /\ status'[1].error_code # NoError]_vars

\* The stored last_run of the list; None while the list has no entry.
StoredRun(st) == IF st = <<>> THEN NoStamp ELSE st[1].last_run

\* C28: a run_pipeline call in preview mode has no lasting effect: none of
\* its steps calls the LLM or delivers, and none changes the list's
\* last_run or last_success.
C28_PreviewLeavesNoTrace ==
    [][\A p \in Procs :
          (runs[p].preview /\ runs'[p] # runs[p]) =>
              /\ runs'[p].effects \cap {"llm", "deliver"} = {}
              /\ StoredRun(status') = StoredRun(status)
              /\ StoredSuccess(status') = StoredSuccess(status)]_vars

(***************************************************************************)
(* Claims about GeminiProvider.generate.                                   *)
(***************************************************************************)
\* requests.post returned a response with this status code.
Status(code) == gm_reply.kind = "response" /\ gm_reply.status_code = code

\* The response is a 200 whose JSON body has no candidates, whose first
\* candidate has no parts, or whose parts have no text.
EmptyResponse ==
    /\ Status(200)
    /\ gm_reply.body.json
    /\ \/ gm_reply.body.candidates = <<>>
       \/ \A i \in 1..Len(gm_reply.body.candidates[1]) :
             ~gm_reply.body.candidates[1][i].has_text

\* C29: GeminiProvider.generate reports each failure to its caller as an
\* LLMError carrying the specific code: HTTP 401 gives LLM_API_AUTH, 429
\* LLM_RATE_LIMITED, 403 LLM_QUOTA_EXCEEDED, a request timeout
\* LLM_TIMEOUT, and a response without candidates, parts or text
\* LLM_EMPTY_RESPONSE.
C29_SpecificErrorCodes ==
    (gm_pc = "returned" /\ gm_images # "dict") =>
        /\ Status(401) => gm_out = LLMError(LLM_API_AUTH)
        /\ Status(429) => gm_out = LLMError(LLM_RATE_LIMITED)
        /\ Status(403) => gm_out = LLMError(LLM_QUOTA_EXCEEDED)
        /\ gm_reply.kind = "Timeout" => gm_out = LLMError(LLM_TIMEOUT)
        /\ EmptyResponse => gm_out = LLMError(LLM_EMPTY_RESPONSE)

(***************************************************************************)
(* Claims about the waits of send_digest.                                  *)
(***************************************************************************)
\* DEFAULT_CONFIG["retry"]: initial_delay_seconds and backoff_multiplier.
initial_delay_seconds == 2
backoff_multiplier == 2

RECURSIVE Power(_, _)
Power(b, e) == IF e = 0 THEN 1 ELSE b * Power(b, e - 1)

\* The time.sleep calls that followed attempts of part p, in order.
SleepsOf(p) == SelectSeq(sleeps, LAMBDA s : s.part = p)

\* How many attempts of part p have failed.
FailedAttempts(p) ==
    Cardinality({k \in 1..Len(sends) : sends[k].part = p /\ ~sends[k].ok})

\* C30: between consecutive failed attempts of the same part send_digest
\* waits 2, 4, 8 ... seconds, the initial delay and the multiplier of the
\* retry defaults, and it does not wait after a part's last attempt: a
\* part's k-th wait is initial_delay_seconds * backoff_multiplier^(k-1),
\* and a wait follows every failed attempt but the max_retries-th.
C30_BackoffDelays ==
    \A p \in 0..(n_parts - 1) :
        /\ \A k \in 1..Len(SleepsOf(p)) :
              SleepsOf(p)[k].seconds =
                  initial_delay_seconds * Power(backoff_multiplier, k - 1)
        /\ Len(SleepsOf(p)) =
              IF FailedAttempts(p) > 0 /\ FailedAttempts(p) = max_retries
              THEN FailedAttempts(p) - 1
              ELSE FailedAttempts(p)

====
